---- MODULE Spec2Model ----
(***************************************************************************)
(* A model of the Telegram bot.  utils.py: markdown_to_html (the           *)
(* converter) and smart_split_message (the chunker); database.py: the      *)
(* quota and subscription queries; bot.py: chat_handler and the            *)
(* administrator's handlers.  Strings are                                  *)
(* sequences of one-character strings; every regular expression of the     *)
(* source is an operator that scans such a sequence the way Python's re    *)
(* module does (leftmost match, greedy or non-greedy as written).          *)
(***************************************************************************)
EXTENDS Integers, Sequences, FiniteSets, TLC

VARIABLES
    \* smart_split_message
    text,           \* the argument text
    max_length,     \* the argument max_length
    pc,             \* position in smart_split_message
    parts,          \* parts
    blocks,         \* blocks: <<type, content>> records
    bi,             \* index of the block the for loop is at
    current_part,   \* current_part
    open_tags,      \* open_tags
    sentences,      \* sentences of the text block being split
    si,             \* index of the sentence the inner loop is at
    error,          \* the exception smart_split_message raised, "none" if none
    emitted,        \* history: for each element of parts, the line that appended
                    \* it and open_tags at that moment
    \* markdown_to_html
    md_raw,         \* the argument text as passed
    md_text,        \* text, rewritten pass after pass
    md_pc,          \* the pass markdown_to_html is about to run
    code_blocks,    \* code_blocks
    table_blocks,   \* table_blocks
    inline_codes,   \* inline_codes
    \* track_tags
    scan_chunk,     \* the argument text_chunk
    scan_pos,       \* where re.finditer looks for the next match
    track_pc,       \* position in track_tags
    last_match,     \* history: where the match handled last began, and
                    \* open_tags before it was handled
    \* database.py
    users,          \* table users: user_id -> row, NoRow if there is none
    subscriptions,  \* table subscriptions: the rows in insertion order
    message_history,\* table message_history: user_id -> its rows in order
    clock,          \* the time date.today(), datetime.now() and
                    \* CURRENT_TIMESTAMP read
    db_result,      \* what the last call of a Database method returned
    \* bot.py
    tasks,          \* the handler tasks of the dispatcher: update -> locals
                    \* and position of the handler handling it
    outbox,         \* history: what was handed to Telegram, in order
    forwarded,      \* history: the requests posted to the text-generation
                    \* service, in order
    fsm_state,      \* the FSM storage: user_id -> state
    db_queries,     \* history: the Database methods the administrator's
                    \* handlers called, and for whom
    send_pc,        \* position in the delivery of chat_handler (lines 624-650)
    send_i          \* number of elements of message_parts already sent

split_vars == <<text, max_length, pc, parts, blocks, bi, current_part,
                open_tags, sentences, si, error, emitted>>

md_vars == <<md_raw, md_text, md_pc, code_blocks, table_blocks, inline_codes>>

track_vars == <<scan_chunk, scan_pos, track_pc, last_match>>

db_vars == <<users, subscriptions, message_history, clock, db_result>>

bot_vars == <<tasks, outbox, forwarded, fsm_state, db_queries, send_pc, send_i>>

app_vars == <<db_vars, bot_vars>>

util_vars == <<split_vars, md_vars, track_vars>>

vars == <<split_vars, md_vars, track_vars, app_vars>>

----------------------------------------------------------------------------
(* database.py: times, rows and the methods of Database                    *)

\* the users the tables may hold rows for are 1..MaxUsers
MaxUsers == 2
UserIds == 1..MaxUsers

\* the daily limits database.py reads from the environment (lines 12-13)
FREE_DAILY_LIMIT == 1
PREMIUM_DAILY_LIMIT == 2

\* A time is a day, a second of that day and a microsecond of that second.
Time(d, s, us) == [day |-> d, sec |-> s, micro |-> us]
Midnight(d) == Time(d, 0, 0)

\* a < b for times
time_less(a, b) ==
    \/ a.day < b.day
    \/ a.day = b.day /\ a.sec < b.sec
    \/ a.day = b.day /\ a.sec = b.sec /\ a.micro < b.micro

\* date.today()
today(now) == now.day

\* sqlite3's adapter of datetime.date: the text YYYY-MM-DD
adapt_date(d) == [date_text |-> d]
\* datetime.strptime(s, '%Y-%m-%d').date()
parse_date(s) == s.date_text
\* the column is NULL
NoDate == [date_text |-> 0 - 1]

\* sqlite3's adapter of datetime.datetime, val.isoformat(" "): the text
\* YYYY-MM-DD HH:MM:SS.ffffff, or YYYY-MM-DD HH:MM:SS without the fraction
\* when the microsecond is 0
adapt_datetime(t) ==
    [day |-> t.day, sec |-> t.sec, fraction |-> t.micro # 0, micro |-> t.micro]

\* datetime.strptime(s, '%Y-%m-%d %H:%M:%S.%f') raises ValueError on a text
\* that has no fraction
strptime_fraction_raises(s) == ~s.fraction
strptime_fraction(s) == Time(s.day, s.sec, s.micro)

\* a < b for two such texts, compared as SQLite compares TEXT: character by
\* character, a text being greater than each of its proper prefixes
text_less(a, b) ==
    \/ a.day < b.day
    \/ a.day = b.day /\ a.sec < b.sec
    \/ a.day = b.day /\ a.sec = b.sec /\ ~a.fraction /\ b.fraction
    \/ a.day = b.day /\ a.sec = b.sec /\ a.fraction /\ b.fraction
          /\ a.micro < b.micro

\* CURRENT_TIMESTAMP of SQLite: the text YYYY-MM-DD HH:MM:SS
current_timestamp(now) == [day |-> now.day, sec |-> now.sec]
\* datetime.strptime(s, "%Y-%m-%d %H:%M:%S")
strptime_seconds(s) == Time(s.day, s.sec, 0)

\* seconds per day, for differences of times
SecondsPerDay == 86400
\* (a - b).total_seconds() for two times without microseconds
seconds_between(a, b) == (a.day - b.day) * SecondsPerDay + (a.sec - b.sec)

\* no row of table users
NoRow ==
    [present |-> FALSE, last_activity |-> current_timestamp(Midnight(0)),
     message_count |-> 0, today_requests |-> 0, last_request_date |-> NoDate,
     total_input_tokens |-> 0, total_output_tokens |-> 0, total_cost |-> 0]

\* lines 86-93, the INSERT: the row of a new user, the other columns taking
\* their defaults of lines 36-43
new_user_row(now) ==
    [present |-> TRUE, last_activity |-> current_timestamp(now),
     message_count |-> 0, today_requests |-> 0,
     last_request_date |-> adapt_date(today(now)),
     total_input_tokens |-> 0, total_output_tokens |-> 0, total_cost |-> 0]

\* lines 81-96
add_user(us, u, now) ==
    IF us[u].present
    THEN [us EXCEPT ![u].last_activity = current_timestamp(now)]
    ELSE [us EXCEPT ![u] = new_user_row(now)]

\* lines 98-113
check_user(us, u) == us[u].present

\* lines 116-127
add_message(mh, u, role, content) ==
    [mh EXCEPT ![u] = Append(@, [role |-> role, content |-> content])]

\* the rows of the user that are active (line 233)
active_rows(subs, u) ==
    {i \in 1..Len(subs) : subs[i].user_id = u /\ subs[i].is_active}

\* ORDER BY end_date DESC LIMIT 1 (lines 234-235)
latest_row(subs, u) ==
    CHOOSE i \in active_rows(subs, u) :
        \A j \in active_rows(subs, u) :
            ~text_less(subs[i].end_date, subs[j].end_date)

\* lines 252-256: UPDATE subscriptions SET is_active = 0
\* WHERE user_id = ? AND end_date < ?
deactivate_expired(subs, u, now) ==
    [i \in 1..Len(subs) |->
        IF subs[i].user_id = u /\ text_less(subs[i].end_date, adapt_datetime(now))
        THEN [subs[i] EXCEPT !.is_active = FALSE]
        ELSE subs[i]]

\* line 243 with >= written for >
not_yet_over_inclusive(end_date, now) == ~time_less(end_date, now)

\* line 243: end_date > datetime.now()
not_yet_over(end_date, now) == time_less(now, end_date)

\* lines 225-260: what the method returns (or that it raised), and the
\* table after the call
get_subscription_info(subs, u, now) ==
    IF active_rows(subs, u) = {}
    THEN [raised |-> FALSE, is_active |-> FALSE, subs |-> subs]
    ELSE LET row == subs[latest_row(subs, u)]
         IN  IF strptime_fraction_raises(row.end_date)
             THEN [raised |-> TRUE, is_active |-> FALSE, subs |-> subs]
             ELSE IF not_yet_over(strptime_fraction(row.end_date), now)
             THEN [raised |-> FALSE, is_active |-> TRUE, subs |-> subs]
             ELSE [raised |-> FALSE, is_active |-> FALSE,
                   subs |-> deactivate_expired(subs, u, now)]

\* lines 276-282: the row inserted; timedelta(days=days) keeps the time of
\* the day
add_subscription(subs, u, days, now) ==
    Append(subs, [user_id |-> u,
                  end_date |-> adapt_datetime(Time(now.day + days, now.sec, now.micro)),
                  is_active |-> TRUE])

\* line 183 without the max
remaining_unclamped(limit, used) == limit - used

\* line 183: max(0, daily_limit - result['today_requests'])
remaining_of(limit, used) == IF limit - used > 0 THEN limit - used ELSE 0

\* lines 158-183: what the method returns (or that it raised), and table
\* subscriptions after the call
get_remaining_requests(us, subs, u, now) ==
    IF ~us[u].present
    THEN [raised |-> FALSE, value |-> FREE_DAILY_LIMIT, subs |-> subs]
    ELSE LET info == get_subscription_info(subs, u, now)
             daily_limit == IF info.is_active THEN PREMIUM_DAILY_LIMIT
                            ELSE FREE_DAILY_LIMIT
             last_date == us[u].last_request_date
         IN  IF info.raised
             THEN [raised |-> TRUE, value |-> 0, subs |-> info.subs]
             ELSE IF last_date = NoDate \/ parse_date(last_date) # today(now)
             THEN [raised |-> FALSE, value |-> daily_limit, subs |-> info.subs]
             ELSE [raised |-> FALSE,
                   value |-> remaining_of(daily_limit, us[u].today_requests),
                   subs |-> info.subs]

\* lines 196-210: the daily counter
count_request(row, now) ==
    IF row.last_request_date = NoDate
          \/ parse_date(row.last_request_date) # today(now)
    THEN [row EXCEPT !.today_requests = 1,
                     !.last_request_date = adapt_date(today(now))]
    ELSE [row EXCEPT !.today_requests = @ + 1]

\* lines 212-220: the totals
add_totals(row, input_tokens, output_tokens, cost, now) ==
    [row EXCEPT !.message_count = @ + 1,
                !.total_input_tokens = @ + input_tokens,
                !.total_output_tokens = @ + output_tokens,
                !.total_cost = @ + cost,
                !.last_activity = current_timestamp(now)]

\* lines 185-223
update_stats(us, u, input_tokens, output_tokens, cost, now) ==
    IF ~us[u].present THEN us
    ELSE [us EXCEPT ![u] = add_totals(count_request(@, now), input_tokens,
                                      output_tokens, cost, now)]

\* lines 327-349
get_user_last_act(us, u, now) ==
    [last_activity |-> us[u].last_activity,
     current_time |-> current_timestamp(now)]

\* get_all_user_ids: the ids of the rows of table users
get_all_user_ids(us) == {u \in UserIds : us[u].present}

\* what db_result holds when no method has been called
NoResult ==
    [method |-> "none", user_id |-> 0, raised |-> FALSE, value |-> 0,
     is_active |-> FALSE]

\* the FSM storage holds no state for the user
NoState == "none"

----------------------------------------------------------------------------
(* Characters and strings                                                  *)

Lower == {"a","b","c","d","e","f","g","h","i","j","k","l","m",
          "n","o","p","q","r","s","t","u","v","w","x","y","z"}
Upper == {"A","B","C","D","E","F","G","H","I","J","K","L","M",
          "N","O","P","Q","R","S","T","U","V","W","X","Y","Z"}
Digit == {"0","1","2","3","4","5","6","7","8","9"}

\* \w of Python's re
WordChars == Lower \cup Upper \cup Digit \cup {"_"}
\* \s of Python's re, and what str.strip() removes
SpaceChars == {" ", "\n", "\t", "\r"}
IsWord(c) == c \in WordChars
IsSpace(c) == c \in SpaceChars

Min(S) == CHOOSE x \in S : \A y \in S : x <= y
Max(S) == CHOOSE x \in S : \A y \in S : x >= y

\* s[p:] starts with t (p is 1-based)
StartsWithAt(s, p, t) ==
    /\ p >= 1
    /\ p + Len(t) - 1 <= Len(s)
    /\ \A k \in 1..Len(t) : s[p + k - 1] = t[k]

\* str.startswith / str.endswith
StartsWith(s, t) == StartsWithAt(s, 1, t)
EndsWith(s, t) == Len(t) <= Len(s) /\ StartsWithAt(s, Len(s) - Len(t) + 1, t)

\* str.find(t, p): the least index >= p where t occurs in s, 0 if none
Find(s, t, p) ==
    LET c == {q \in p..(Len(s) - Len(t) + 1) : StartsWithAt(s, q, t)}
    IN  IF c = {} THEN 0 ELSE Min(c)

\* the end (exclusive) of the maximal run from p of characters in C
RECURSIVE RunEndIn(_, _, _)
RunEndIn(s, p, C) ==
    IF p <= Len(s) /\ s[p] \in C THEN RunEndIn(s, p + 1, C) ELSE p

\* the end (exclusive) of the maximal run from p of characters not in C
RECURSIVE RunEndNotIn(_, _, _)
RunEndNotIn(s, p, C) ==
    IF p <= Len(s) /\ s[p] \notin C THEN RunEndNotIn(s, p + 1, C) ELSE p

\* str.strip()
strip(s) ==
    LET keep == {k \in 1..Len(s) : ~IsSpace(s[k])}
    IN  IF keep = {} THEN <<>> ELSE SubSeq(s, Min(keep), Max(keep))

\* ''.join(list)
RECURSIVE join(_)
join(l) == IF l = <<>> THEN <<>> ELSE Head(l) \o join(Tail(l))

\* list(reversed(list))
RECURSIVE reversed(_)
reversed(l) == IF l = <<>> THEN <<>> ELSE reversed(Tail(l)) \o <<Head(l)>>

\* str.split(sep) for a one-character separator
RECURSIVE split_char(_, _)
split_char(s, sep) ==
    LET c == {q \in 1..Len(s) : s[q] = sep}
    IN  IF c = {} THEN <<s>>
        ELSE <<SubSeq(s, 1, Min(c) - 1)>>
             \o split_char(SubSeq(s, Min(c) + 1, Len(s)), sep)

NL == "\n"
PreOpen == <<"<","p","r","e",">">>
PreClose == <<"<","/","p","r","e",">">>
SpoilerOpen == <<"<","t","g","-","s","p","o","i","l","e","r",">">>
SpoilerClose == <<"<","/","t","g","-","s","p","o","i","l","e","r",">">>

----------------------------------------------------------------------------
(* smart_split_message: the pure pieces                                    *)

\* re.finditer(r'<pre>[\s\S]*?</pre>', text) from position p: the spans
\* (first and last index) of the non-overlapping leftmost shortest matches
RECURSIVE special_blocks_from(_, _)
special_blocks_from(t, p) ==
    LET i == Find(t, PreOpen, p)
        j == IF i = 0 THEN 0 ELSE Find(t, PreClose, i + Len(PreOpen))
    IN  IF i = 0 \/ j = 0 THEN <<>>
        ELSE <<[start |-> i, end |-> j + Len(PreClose) - 1]>>
             \o special_blocks_from(t, j + Len(PreClose))

special_blocks(t) == special_blocks_from(t, 1)

TextBlock(c) == [block_type |-> "text", block_content |-> c]
SpecialBlock(c) == [block_type |-> "special", block_content |-> c]

\* the loop over special_blocks and the remaining text; last_pos is the
\* index of the first character not yet consumed
RECURSIVE blocks_from(_, _, _)
blocks_from(t, sb, last_pos) ==
    IF sb = <<>>
    THEN LET remaining == strip(SubSeq(t, last_pos, Len(t)))
         IN  IF last_pos <= Len(t) /\ remaining # <<>>
             THEN <<TextBlock(remaining)>> ELSE <<>>
    ELSE LET m == Head(sb)
             pre_text == strip(SubSeq(t, last_pos, m.start - 1))
         IN  (IF m.start > last_pos /\ pre_text # <<>>
              THEN <<TextBlock(pre_text)>> ELSE <<>>)
             \o <<SpecialBlock(SubSeq(t, m.start, m.end))>>
             \o blocks_from(t, Tail(sb), m.end + 1)

\* lines 171-172 taken whatever the text holds: the text as one text block
make_blocks_unsegmented(t) == <<TextBlock(t)>>

\* blocks, as built from the text
make_blocks(t) ==
    LET b == blocks_from(t, special_blocks(t), 1)
    IN  IF b = <<>> THEN <<TextBlock(t)>> ELSE b

get_open_tags_string(tags) == join(tags)

\* tag[1:].split()[0].rstrip('>')
close_tag_name(tag) ==
    LET rest == Tail(tag)
        a == RunEndIn(rest, 1, SpaceChars)
        b == RunEndNotIn(rest, a, SpaceChars)
        tok == SubSeq(rest, a, b - 1)
        keep == {k \in 1..Len(tok) : tok[k] # ">"}
    IN  IF keep = {} THEN <<>> ELSE SubSeq(tok, 1, Max(keep))

get_close_tags_string(tags) ==
    LET r == reversed(tags)
    IN  join([k \in 1..Len(r) |-> <<"<", "/">> \o close_tag_name(r[k]) \o <<">">>])

\* One match of tag_pattern at position p of s, or kind "none":
\*   <(/?)(\w+)(?:\s[^>]*)?>  |  <(tg-spoiler)>  |  </(tg-spoiler)>
tag_match(s, p) ==
    LET slash == p + 1 <= Len(s) /\ s[p + 1] = "/"
        q == IF slash THEN p + 2 ELSE p + 1
        r == RunEndIn(s, q, WordChars)
        gt == IF r > q /\ r <= Len(s) /\ s[r] = ">" THEN r
              ELSE IF r > q /\ r <= Len(s) /\ s[r] \in SpaceChars
                   THEN Find(s, <<">">>, r + 1)
                   ELSE 0
    IN  IF s[p] # "<" THEN [kind |-> "none"]
        ELSE IF gt # 0
             THEN [kind |-> IF slash THEN "close" ELSE "open", end |-> gt,
                   tag_name |-> SubSeq(s, q, r - 1)]
             ELSE IF StartsWithAt(s, p, SpoilerOpen)
                  THEN [kind |-> "spoiler_open", end |-> p + Len(SpoilerOpen) - 1]
                  ELSE IF StartsWithAt(s, p, SpoilerClose)
                       THEN [kind |-> "spoiler_close",
                             end |-> p + Len(SpoilerClose) - 1]
                       ELSE [kind |-> "none"]

\* the list without its element at index i
pop_at(l, i) == SubSeq(l, 1, i - 1) \o SubSeq(l, i + 1, Len(l))

\* for i in range(len(open_tags) - 1, -1, -1): if startswith: pop(i); break
pop_matching(tags, tag_name) ==
    LET c == {i \in 1..Len(tags) : StartsWith(tags[i], <<"<">> \o tag_name)}
    IN  IF c = {} THEN tags ELSE pop_at(tags, Max(c))

\* elif match.group(4): the closing spoiler tag
pop_spoiler(tags) ==
    IF tags # <<>> /\ tags[Len(tags)] = SpoilerOpen
    THEN SubSeq(tags, 1, Len(tags) - 1) ELSE tags

\* the body of the for loop of track_tags for one match m
track_one(tags, s, p, m) ==
    CASE m.kind = "spoiler_open" -> Append(tags, SpoilerOpen)
      [] m.kind = "spoiler_close" -> pop_spoiler(tags)
      [] m.kind = "close" -> pop_matching(tags, m.tag_name)
      [] m.kind = "open" -> Append(tags, SubSeq(s, p, m.end))

RECURSIVE track_from(_, _, _)
track_from(tags, s, p) ==
    IF p > Len(s) THEN tags
    ELSE LET m == tag_match(s, p)
         IN  IF m.kind = "none" THEN track_from(tags, s, p + 1)
             ELSE track_from(track_one(tags, s, p, m), s, m.end + 1)

\* track_tags(text_chunk): open_tags after the call
track_tags(tags, text_chunk) == track_from(tags, text_chunk, 1)

wrap_pre(temp_block) == PreOpen \o temp_block \o PreClose

\* whether the line joins temp_block: len(temp_block) + len(line) + 12 <= max_length
line_fits(temp_block, line, max) == Len(temp_block) + Len(line) + 12 <= max

\* the for loop over the lines of an oversized <pre> block and the final
\* append: the pieces it adds to parts
RECURSIVE pre_pieces(_, _, _)
pre_pieces(lines, temp_block, max) ==
    IF lines = <<>>
    THEN IF temp_block # <<>> THEN <<wrap_pre(temp_block)>> ELSE <<>>
    ELSE LET line == Head(lines)
         IN  IF line_fits(temp_block, line, max)
             THEN pre_pieces(Tail(lines), temp_block \o line \o <<NL>>, max)
             ELSE (IF temp_block # <<>> THEN <<wrap_pre(temp_block)>> ELSE <<>>)
                  \o pre_pieces(Tail(lines), line \o <<NL>>, max)

\* block_content[5:-6]
pre_inner(block_content) == SubSeq(block_content, 6, Len(block_content) - 6)

split_pre_block(block_content, max) ==
    pre_pieces(split_char(pre_inner(block_content), NL), <<>>, max)

\* the else branch of line 240: slices of max_length - 100 characters
RECURSIVE char_slices(_, _, _)
char_slices(s, i, step) ==
    IF i > Len(s) THEN <<>>
    ELSE <<SubSeq(s, i, Min({Len(s), i + step - 1}))>>
         \o char_slices(s, i + step, step)

SentenceEnd == {".", "!", "?"}

\* One match of ([.!?]+\s+|\n\n+) at position p of s: the index after the
\* match, 0 if there is none
sentence_sep(s, p) ==
    LET r == RunEndIn(s, p, SentenceEnd)
        w == RunEndIn(s, r, SpaceChars)
        n == RunEndIn(s, p, {NL})
    IN  IF r > p /\ w > r THEN w
        ELSE IF n >= p + 2 THEN n
        ELSE 0

\* re.split(r'([.!?]+\s+|\n\n+)', s) scanning from p, the current piece
\* starting at from
RECURSIVE re_split_from(_, _, _)
re_split_from(s, p, from) ==
    IF p > Len(s) THEN <<SubSeq(s, from, Len(s))>>
    ELSE LET e == sentence_sep(s, p)
         IN  IF e = 0 THEN re_split_from(s, p + 1, from)
             ELSE <<SubSeq(s, from, p - 1), SubSeq(s, p, e - 1)>>
                  \o re_split_from(s, e, e)

split_sentences(s) == re_split_from(s, 1, 1)

----------------------------------------------------------------------------
(* smart_split_message: the inputs                                         *)

\* Texts are concatenations of at most MaxFrags fragments
MaxFrags == 4

FragB == <<"<","b",">">>
FragBClose == <<"<","/","b",">">>
FragWord == <<"a","a","a","a">>
FragStop == <<".", " ">>
FragPara == <<NL, NL>>
FragSpace == <<" ">>
FragPreSmall == PreOpen \o <<"a">> \o PreClose
FragPreLines == PreOpen \o <<"a", NL, "b">> \o PreClose
FragPreLong == PreOpen \o <<"a","a","a", NL, "b">> \o PreClose

FragPreStop == PreOpen \o FragStop \o PreClose

SplitFrags == {FragB, FragBClose, FragWord, FragStop, FragPara, FragSpace,
               FragPreSmall, FragPreLines, FragPreLong, FragPreStop}

\* the sequences of at most n fragments of F
FragSeqs(F, n) == UNION {[1..k -> F] : k \in 0..n}

SplitTexts == {join(fs) : fs \in FragSeqs(SplitFrags, MaxFrags)}

\* Texts with a link whose address holds a sentence end
FragAnchor == <<"<","a"," ","h","r","e","f","=","\"",".", " ","\"",">">>
FragAnchorClose == <<"<","/","a",">">>

TaggedFrags == {FragAnchor, FragAnchorClose, FragWord, FragStop, FragPara,
                FragPreSmall, FragPreLines}

TaggedTexts == {join(fs) : fs \in FragSeqs(TaggedFrags, MaxFrags)}

\* the values of max_length tried: a non-positive one, one that two words
\* and a space exceed, one that some <pre> fragments fit and others exceed,
\* and one that a <pre> fragment and a word fit together
MaxLengths == {0, 10, 13, 20}

----------------------------------------------------------------------------
(* smart_split_message: the steps                                          *)

Emit(path, tags) == [path |-> path, open_tags |-> tags]

block == blocks[bi]
block_len == Len(block.block_content)

\* line 132 with < written for <=
fits_whole_strict(t, max) == Len(t) < max

\* line 132: if len(text) <= max_length
fits_whole(t, max) == Len(t) <= max

\* line 133: return [text]
return_whole ==
    /\ pc = "start"
    /\ fits_whole(text, max_length)
    /\ parts' = <<text>>
    /\ emitted' = <<Emit("whole", <<>>)>>
    /\ pc' = "done"
    /\ UNCHANGED <<text, max_length, blocks, bi, current_part, open_tags,
                   sentences, si, error>>
    /\ UNCHANGED md_vars
    /\ UNCHANGED track_vars
    /\ UNCHANGED app_vars

\* lines 135-176: segmentation into blocks
segment ==
    /\ pc = "start"
    /\ ~fits_whole(text, max_length)
    /\ blocks' = make_blocks(text)
    /\ bi' = 1
    /\ pc' = "blocks"
    /\ UNCHANGED <<text, max_length, parts, current_part, open_tags,
                   sentences, si, error, emitted>>
    /\ UNCHANGED md_vars
    /\ UNCHANGED track_vars
    /\ UNCHANGED app_vars

in_loop == pc = "blocks" /\ bi <= Len(blocks)

\* line 217
oversized_special == block.block_type = "special" /\ block_len > max_length

\* line 247
overflows == Len(current_part) + block_len + 2 > max_length

\* lines 219-222: what the flush before an oversized block appends
flush_plain(cp) == strip(cp)

\* lines 217-244: an oversized special block
split_oversized ==
    /\ in_loop
    /\ oversized_special
    /\ LET flush == strip(current_part) # <<>>
           before == IF flush THEN <<flush_plain(current_part)>> ELSE <<>>
           pre == StartsWith(block.block_content, PreOpen)
           step == max_length - 100
           pieces == IF pre THEN split_pre_block(block.block_content, max_length)
                     ELSE IF step > 0 THEN char_slices(block.block_content, 1, step)
                     ELSE <<>>
       IN  /\ parts' = parts \o before \o pieces
           /\ emitted' = emitted
                  \o [k \in 1..Len(before) |-> Emit("flush_before_pre", open_tags)]
                  \o [k \in 1..Len(pieces) |-> Emit("pre_piece", <<>>)]
           /\ current_part' = IF flush THEN <<>> ELSE current_part
           /\ open_tags' = IF flush THEN <<>> ELSE open_tags
           /\ error' = IF ~pre /\ step = 0 THEN "ValueError" ELSE error
    /\ bi' = bi + 1
    /\ UNCHANGED <<text, max_length, pc, blocks, sentences, si>>
    /\ UNCHANGED md_vars
    /\ UNCHANGED track_vars
    /\ UNCHANGED app_vars

\* lines 249-251: the chunk closed because the block would overflow it
closed_chunk(cp, tags) == strip(cp) \o get_close_tags_string(tags)

\* line 251: what the chunk after a closed one is seeded with
reopened(tags) == get_open_tags_string(tags)

\* the state after lines 249-251
after_flush ==
    LET flush == strip(current_part) # <<>>
    IN  [parts |-> IF flush THEN Append(parts, closed_chunk(current_part, open_tags))
                   ELSE parts,
         emitted |-> IF flush THEN Append(emitted, Emit("flush", open_tags))
                     ELSE emitted,
         current_part |-> IF flush THEN reopened(open_tags) ELSE current_part]

\* line 254
still_too_long(a) == Len(a.current_part) + block_len > max_length

\* the state after lines 255-258: "start from a clean sheet"
clean_sheet(a) ==
    LET extra == a.current_part # get_open_tags_string(open_tags)
    IN  [parts |-> IF extra
                   THEN Append(a.parts, closed_chunk(a.current_part, open_tags))
                   ELSE a.parts,
         emitted |-> IF extra THEN Append(a.emitted, Emit("clean_sheet", open_tags))
                     ELSE a.emitted]

\* lines 247-262: the block overflows, does not fit a fresh chunk either,
\* and is a text block: it is split into sentences
overflow_split_text ==
    /\ in_loop
    /\ ~oversized_special
    /\ overflows
    /\ still_too_long(after_flush)
    /\ block.block_type = "text"
    /\ parts' = clean_sheet(after_flush).parts
    /\ emitted' = clean_sheet(after_flush).emitted
    /\ current_part' = <<>>
    /\ open_tags' = <<>>
    /\ sentences' = split_sentences(block.block_content)
    /\ si' = 1
    /\ pc' = "sentences"
    /\ UNCHANGED <<text, max_length, blocks, bi, error>>
    /\ UNCHANGED md_vars
    /\ UNCHANGED track_vars
    /\ UNCHANGED app_vars

\* lines 247-258, 279-281: the same for a special block, which starts the
\* fresh chunk whole
overflow_fresh_special ==
    /\ in_loop
    /\ ~oversized_special
    /\ overflows
    /\ still_too_long(after_flush)
    /\ block.block_type # "text"
    /\ parts' = clean_sheet(after_flush).parts
    /\ emitted' = clean_sheet(after_flush).emitted
    /\ current_part' = block.block_content
    /\ open_tags' = track_tags(<<>>, block.block_content)
    /\ bi' = bi + 1
    /\ UNCHANGED <<text, max_length, pc, blocks, sentences, si, error>>
    /\ UNCHANGED md_vars
    /\ UNCHANGED track_vars
    /\ UNCHANGED app_vars

\* "\n\n" is put between the chunk so far and the block
with_break(cp) == IF cp # <<>> /\ ~EndsWith(cp, <<NL, NL>>) THEN cp \o <<NL, NL>> ELSE cp

\* lines 247-251, 282-286: the block overflows and fits the re-opened chunk
overflow_fits_reopened ==
    /\ in_loop
    /\ ~oversized_special
    /\ overflows
    /\ ~still_too_long(after_flush)
    /\ parts' = after_flush.parts
    /\ emitted' = after_flush.emitted
    /\ current_part' = with_break(after_flush.current_part) \o block.block_content
    /\ open_tags' = track_tags(open_tags, block.block_content)
    /\ bi' = bi + 1
    /\ UNCHANGED <<text, max_length, pc, blocks, sentences, si, error>>
    /\ UNCHANGED md_vars
    /\ UNCHANGED track_vars
    /\ UNCHANGED app_vars

\* lines 287-292: the block is added to the current chunk
append_block ==
    /\ in_loop
    /\ ~oversized_special
    /\ ~overflows
    /\ current_part' = (IF block.block_type # "special" THEN with_break(current_part)
                        ELSE current_part) \o block.block_content
    /\ open_tags' = track_tags(open_tags, block.block_content)
    /\ bi' = bi + 1
    /\ UNCHANGED <<text, max_length, pc, parts, blocks, sentences, si, error, emitted>>
    /\ UNCHANGED md_vars
    /\ UNCHANGED track_vars
    /\ UNCHANGED app_vars

in_sentences == pc = "sentences" /\ si <= Len(sentences)
sentence == sentences[si]

\* lines 265-266
skip_blank ==
    /\ in_sentences
    /\ strip(sentence) = <<>>
    /\ si' = si + 1
    /\ UNCHANGED <<text, max_length, pc, parts, blocks, bi, current_part,
                   open_tags, sentences, error, emitted>>
    /\ UNCHANGED md_vars
    /\ UNCHANGED track_vars
    /\ UNCHANGED app_vars

\* line 268
sentence_fits == Len(current_part) + Len(sentence) <= max_length

\* lines 268-270
append_sentence ==
    /\ in_sentences
    /\ strip(sentence) # <<>>
    /\ sentence_fits
    /\ current_part' = current_part \o sentence
    /\ open_tags' = track_tags(open_tags, sentence)
    /\ si' = si + 1
    /\ UNCHANGED <<text, max_length, pc, parts, blocks, bi, sentences, error, emitted>>
    /\ UNCHANGED md_vars
    /\ UNCHANGED track_vars
    /\ UNCHANGED app_vars

\* lines 271-278
flush_sentence ==
    /\ in_sentences
    /\ strip(sentence) # <<>>
    /\ ~sentence_fits
    /\ LET flush == strip(current_part) # <<>>
       IN  /\ parts' = IF flush
                       THEN Append(parts, closed_chunk(current_part, open_tags))
                       ELSE parts
           /\ emitted' = IF flush THEN Append(emitted, Emit("sentence", open_tags))
                         ELSE emitted
    /\ current_part' = reopened(open_tags) \o sentence
    /\ open_tags' = track_tags(<<>>, reopened(open_tags) \o sentence)
    /\ si' = si + 1
    /\ UNCHANGED <<text, max_length, pc, blocks, bi, sentences, error>>
    /\ UNCHANGED md_vars
    /\ UNCHANGED track_vars
    /\ UNCHANGED app_vars

\* the inner for loop is exhausted: on to the next block
sentences_done ==
    /\ pc = "sentences"
    /\ si > Len(sentences)
    /\ pc' = "blocks"
    /\ bi' = bi + 1
    /\ UNCHANGED <<text, max_length, parts, blocks, current_part, open_tags,
                   sentences, si, error, emitted>>
    /\ UNCHANGED md_vars
    /\ UNCHANGED track_vars
    /\ UNCHANGED app_vars

\* lines 294-298
finish ==
    /\ pc = "blocks"
    /\ bi > Len(blocks)
    /\ LET flush == strip(current_part) # <<>>
       IN  /\ parts' = IF flush
                       THEN Append(parts, closed_chunk(current_part, open_tags))
                       ELSE parts
           /\ emitted' = IF flush THEN Append(emitted, Emit("final", open_tags))
                         ELSE emitted
    /\ pc' = "done"
    /\ UNCHANGED <<text, max_length, blocks, bi, current_part, open_tags,
                   sentences, si, error>>
    /\ UNCHANGED md_vars
    /\ UNCHANGED track_vars
    /\ UNCHANGED app_vars

\* the call smart_split_message(text, max_length); markdown_to_html is not
\* running
SplitInit ==
    /\ text \in SplitTexts
    /\ max_length \in MaxLengths
    /\ pc = "start"
    /\ parts = <<>>
    /\ blocks = <<>>
    /\ bi = 1
    /\ current_part = <<>>
    /\ open_tags = <<>>
    /\ sentences = <<>>
    /\ si = 1
    /\ error = "none"
    /\ emitted = <<>>
    /\ scan_chunk = <<>>
    /\ scan_pos = 1
    /\ track_pc = "idle"
    /\ last_match = [at |-> 0, before |-> <<>>]
    /\ md_raw = <<>>
    /\ md_text = <<>>
    /\ md_pc = "idle"
    /\ code_blocks = <<>>
    /\ table_blocks = <<>>
    /\ inline_codes = <<>>
    /\ users = [u \in UserIds |-> NoRow]
    /\ subscriptions = <<>>
    /\ message_history = [u \in UserIds |-> <<>>]
    /\ clock = Midnight(0)
    /\ db_result = NoResult
    /\ tasks = <<>>
    /\ outbox = <<>>
    /\ forwarded = <<>>
    /\ fsm_state = [u \in UserIds |-> NoState]
    /\ db_queries = <<>>
    /\ send_pc = "idle"
    /\ send_i = 0

\* the same call on a text of TaggedTexts
SplitTaggedInit ==
    /\ text \in TaggedTexts
    /\ max_length \in MaxLengths
    /\ pc = "start"
    /\ parts = <<>>
    /\ blocks = <<>>
    /\ bi = 1
    /\ current_part = <<>>
    /\ open_tags = <<>>
    /\ sentences = <<>>
    /\ si = 1
    /\ error = "none"
    /\ emitted = <<>>
    /\ scan_chunk = <<>>
    /\ scan_pos = 1
    /\ track_pc = "idle"
    /\ last_match = [at |-> 0, before |-> <<>>]
    /\ md_raw = <<>>
    /\ md_text = <<>>
    /\ md_pc = "idle"
    /\ code_blocks = <<>>
    /\ table_blocks = <<>>
    /\ inline_codes = <<>>
    /\ users = [u \in UserIds |-> NoRow]
    /\ subscriptions = <<>>
    /\ message_history = [u \in UserIds |-> <<>>]
    /\ clock = Midnight(0)
    /\ db_result = NoResult
    /\ tasks = <<>>
    /\ outbox = <<>>
    /\ forwarded = <<>>
    /\ fsm_state = [u \in UserIds |-> NoState]
    /\ db_queries = <<>>
    /\ send_pc = "idle"
    /\ send_i = 0

SplitNext ==
    \/ return_whole
    \/ segment
    \/ split_oversized
    \/ overflow_split_text
    \/ overflow_fresh_special
    \/ overflow_fits_reopened
    \/ append_block
    \/ skip_blank
    \/ append_sentence
    \/ flush_sentence
    \/ sentences_done
    \/ finish


----------------------------------------------------------------------------
(* markdown_to_html: the pure pieces                                       *)

\* html.escape(s) (quote=True)
escape_char(c) ==
    CASE c = "&" -> <<"&","a","m","p",";">>
      [] c = "<" -> <<"&","l","t",";">>
      [] c = ">" -> <<"&","g","t",";">>
      [] c = "\"" -> <<"&","q","u","o","t",";">>
      [] c = "'" -> <<"&","#","x","2","7",";">>
      [] OTHER -> <<c>>

escape(s) == join([k \in 1..Len(s) |-> escape_char(s[k])])

DigitSeq == <<"0","1","2","3","4","5","6","7","8","9">>

\* str(n) for n >= 0
RECURSIVE str_int(_)
str_int(n) ==
    IF n < 10 THEN <<DigitSeq[n + 1]>>
    ELSE str_int(n \div 10) \o <<DigitSeq[(n % 10) + 1]>>

\* str.replace(old, new)
RECURSIVE replace(_, _, _)
replace(s, old, new) ==
    LET i == Find(s, old, 1)
    IN  IF i = 0 THEN s
        ELSE SubSeq(s, 1, i - 1) \o new
             \o replace(SubSeq(s, i + Len(old), Len(s)), old, new)

\* sep.join(list)
RECURSIVE join_with(_, _)
join_with(sep, l) ==
    IF l = <<>> THEN <<>>
    ELSE IF Len(l) = 1 THEN l[1]
    ELSE l[1] \o sep \o join_with(sep, Tail(l))

\* str.ljust(width)
ljust(s, width) ==
    s \o [k \in 1..(IF width > Len(s) THEN width - Len(s) ELSE 0) |-> " "]

Underscores3 == <<"_","_","_">>
CODE_BLOCK == <<"C","O","D","E","_","B","L","O","C","K">>
TABLE_BLOCK == <<"T","A","B","L","E","_","B","L","O","C","K">>
INLINE_CODE == <<"I","N","L","I","N","E","_","C","O","D","E">>

\* f"___{name}_{n}___"
placeholder(name, n) ==
    Underscores3 \o name \o <<"_">> \o str_int(n) \o Underscores3

NoMatch == [end |-> 0, group1 |-> <<>>, group2 |-> <<>>]
Match(e, g1, g2) == [end |-> e, group1 |-> g1, group2 |-> g2]

\* r'/\*[\s\S]*?\*/' at p; end is the index after the match
comment_at(s, p) ==
    LET j == Find(s, <<"*","/">>, p + 2)
    IN  IF StartsWithAt(s, p, <<"/","*">>) /\ j # 0
        THEN Match(j + 2, <<>>, <<>>) ELSE NoMatch

\* The grave accent cannot be written inside a TLA+ string: the character is
\* the one-element value BACKTICK
Backtick == "BACKTICK"
Fence == <<Backtick, Backtick, Backtick>>

\* r'FENCE(?:\w+)?\n([\s\S]*?)FENCE' at p, FENCE being three grave accents
code_block_at(s, p) ==
    LET w == RunEndIn(s, p + 3, WordChars)
        j == Find(s, Fence, w + 1)
    IN  IF StartsWithAt(s, p, Fence) /\ w <= Len(s) /\ s[w] = NL /\ j # 0
        THEN Match(j + 3, SubSeq(s, w + 1, j - 1), <<>>) ELSE NoMatch

\* the index of the '\n' ending the line that holds position p, Len(s) + 1
\* if the line is the last and unterminated
line_end(s, p) == RunEndNotIn(s, p, {NL})

\* one r'\|.+\|\n?' row at p (greedy: up to the last '|' of the line); 0 if none
table_row_end(s, p) ==
    LET le == line_end(s, p)
        c == {j \in (p + 2)..(le - 1) : s[j] = "|"}
        j == Max(c)
    IN  IF p <= Len(s) /\ s[p] = "|" /\ c # {}
        THEN (IF j + 1 <= Len(s) /\ s[j + 1] = NL THEN j + 2 ELSE j + 1)
        ELSE 0

\* r'(?:\|.+\|\n?)*' from p: the index after the last row matched
RECURSIVE table_rows_end(_, _)
table_rows_end(s, p) ==
    LET e == table_row_end(s, p)
    IN  IF e = 0 THEN p ELSE table_rows_end(s, e)

SeparatorChars == SpaceChars \cup {":", "|", "-"}

\* r'\|.+\|\n\|[\s:|\-]+\|\n(?:\|.+\|\n?)*' at p (the group of the table
\* pattern); 0 if none
table_body_end(s, p) ==
    LET le == line_end(s, p)
        header == p + 2 <= le - 1 /\ s[p] = "|" /\ s[le - 1] = "|" /\ le <= Len(s)
        q == le + 1
        run == RunEndIn(s, q + 1, SeparatorChars)
        c == {j \in (q + 2)..(run - 2) : s[j] = "|" /\ s[j + 1] = NL}
    IN  IF p <= Len(s) /\ header /\ q <= Len(s) /\ s[q] = "|" /\ c # {}
        THEN table_rows_end(s, Max(c) + 2)
        ELSE 0

\* r'(?:^|\n)(...)' with re.MULTILINE at p; group1 holds match.group(0)
table_at(s, p) ==
    LET bol == p = 1 \/ s[p - 1] = NL
        e1 == IF bol THEN table_body_end(s, p) ELSE 0
        e2 == IF s[p] = NL THEN table_body_end(s, p + 1) ELSE 0
        e == IF e1 # 0 THEN e1 ELSE e2
    IN  IF e # 0 THEN Match(e, SubSeq(s, p, e - 1), <<>>) ELSE NoMatch

\* r'Q([^Q]+)Q' at p, Q being the grave accent
inline_code_at(s, p) ==
    LET r == RunEndNotIn(s, p + 1, {Backtick})
    IN  IF s[p] = Backtick /\ r > p + 1 /\ r <= Len(s)
        THEN Match(r + 1, SubSeq(s, p + 1, r - 1), <<>>) ELSE NoMatch

\* d + ([^c]+?) + d at p, d being one or two characters c:
\* r'\*\*([^*]+?)\*\*', r'__([^_]+?)__', r'\*([^*]+?)\*', r'_([^_]+?)_',
\* r'~~([^~]+?)~~'
delimited_at(s, p, d, c) ==
    LET a == p + Len(d)
        r == RunEndNotIn(s, a, {c})
    IN  IF StartsWithAt(s, p, d) /\ r > a /\ StartsWithAt(s, r, d)
        THEN Match(r + Len(d), SubSeq(s, a, r - 1), <<>>) ELSE NoMatch

\* r'\[([^\]]+)\]\(([^)]+)\)' at p
link_at(s, p) ==
    LET r == RunEndNotIn(s, p + 1, {"]"})
        u == RunEndNotIn(s, r + 2, {")"})
    IN  IF s[p] = "[" /\ r > p + 1 /\ StartsWithAt(s, r, <<"]", "(">>)
           /\ u > r + 2 /\ u <= Len(s)
        THEN Match(u + 1, SubSeq(s, p + 1, r - 1), SubSeq(s, r + 2, u - 1))
        ELSE NoMatch

Bars == <<"|", "|">>

\* r'\|\|(.+?)\|\|' at p
spoiler_at(s, p) ==
    LET le == line_end(s, p + 2)
        c == {j \in (p + 3)..(le - 2) : StartsWithAt(s, j, Bars)}
    IN  IF StartsWithAt(s, p, Bars) /\ c # {}
        THEN Match(Min(c) + 2, SubSeq(s, p + 2, Min(c) - 1), <<>>) ELSE NoMatch

TagOpen(name) == <<"<">> \o name \o <<">">>
TagClose(name) == <<"<", "/">> \o name \o <<">">>

\* line.split('|'), each cell stripped, the empty ones dropped
table_cells(line) ==
    LET raw == split_char(line, "|")
    IN  SelectSeq([k \in 1..Len(raw) |-> strip(raw[k])], LAMBDA c : c # <<>>)

\* the non-blank lines of the table, stripped
table_lines(table_text) ==
    LET raw == split_char(strip(table_text), NL)
    IN  SelectSeq([k \in 1..Len(raw) |-> strip(raw[k])], LAMBDA l : l # <<>>)

\* rows: the cells of every line but the second, the empty rows dropped
table_rows(lines) ==
    SelectSeq([k \in 1..Len(lines) |-> IF k = 2 THEN <<>> ELSE table_cells(lines[k])],
              LAMBDA r : r # <<>>)

\* what a cell contributes to the width of its column
cell_width(cell) == Len(cell)

\* col_widths
col_widths(rows) ==
    [i \in 1..Len(rows[1]) |->
        Max({0} \cup {cell_width(rows[k][i]) : k \in {r \in 1..Len(rows) : Len(rows[r]) >= i}})]

\* one rendered line of the table
table_line(row, widths) ==
    LET n == IF Len(row) < Len(widths) THEN Len(row) ELSE Len(widths)
    IN  join_with(<<" ", "|", " ">>, [i \in 1..n |-> ljust(escape(row[i]), widths[i])])
        \o <<NL>>

table_separator(widths) ==
    join_with(<<"-", "+", "-">>, [i \in 1..Len(widths) |-> [k \in 1..widths[i] |-> "-"]])
    \o <<NL>>

\* result: the aligned table inside <pre>
render_table(rows) ==
    LET widths == col_widths(rows)
    IN  PreOpen \o <<NL>>
        \o join([k \in 1..Len(rows) |->
                   table_line(rows[k], widths)
                   \o (IF k = 1 THEN table_separator(widths) ELSE <<>>)])
        \o PreClose

\* whether table_replacer returns the text as it is
table_malformed(table_text) ==
    Len(table_lines(table_text)) < 2 \/ table_rows(table_lines(table_text)) = <<>>

AnchorTag(url, label) ==
    <<"<","a"," ","h","r","e","f","=","\"">> \o url \o <<"\"", ">">>
    \o label \o <<"<","/","a",">">>

\* what the code block replacer stores for a match
code_block_stored(m) == PreOpen \o escape(m.group1) \o PreClose

\* what the inline code replacer stores for a match
inline_code_stored(m) ==
    <<"<","c","o","d","e",">">> \o escape(m.group1) \o <<"<","/","c","o","d","e",">">>

\* re.sub(r'/\*[\s\S]*?\*/', '', s) from position p
RECURSIVE comments_from(_, _)
comments_from(s, p) ==
    IF p > Len(s) THEN <<>>
    ELSE LET m == comment_at(s, p)
         IN  IF m.end = 0 THEN <<s[p]>> \o comments_from(s, p + 1)
             ELSE comments_from(s, m.end)

\* re.sub(..., code_block_replacer, s) from position p, n blocks being stored
\* already: the new text and the blocks stored, in order
RECURSIVE code_blocks_from(_, _, _)
code_blocks_from(s, p, n) ==
    IF p > Len(s) THEN [text |-> <<>>, stored |-> <<>>]
    ELSE LET m == code_block_at(s, p)
         IN  IF m.end = 0
             THEN LET rest == code_blocks_from(s, p + 1, n)
                  IN  [text |-> <<s[p]>> \o rest.text, stored |-> rest.stored]
             ELSE LET rest == code_blocks_from(s, m.end, n + 1)
                  IN  [text |-> placeholder(CODE_BLOCK, n) \o rest.text,
                       stored |-> <<code_block_stored(m)>> \o rest.stored]

\* table_replacer(match), n tables being stored already: the text put in
\* place of the match and what is appended to table_blocks
table_replacer(table_text, n) ==
    IF table_malformed(table_text) THEN [text |-> table_text, stored |-> <<>>]
    ELSE [text |-> placeholder(TABLE_BLOCK, n),
          stored |-> <<render_table(table_rows(table_lines(table_text)))>>]

\* re.sub(..., table_replacer, s, flags=re.MULTILINE) from position p
RECURSIVE tables_from(_, _, _)
tables_from(s, p, n) ==
    IF p > Len(s) THEN [text |-> <<>>, stored |-> <<>>]
    ELSE LET m == table_at(s, p)
         IN  IF m.end = 0
             THEN LET rest == tables_from(s, p + 1, n)
                  IN  [text |-> <<s[p]>> \o rest.text, stored |-> rest.stored]
             ELSE LET r == table_replacer(m.group1, n)
                      rest == tables_from(s, m.end, n + Len(r.stored))
                  IN  [text |-> r.text \o rest.text, stored |-> r.stored \o rest.stored]

\* re.sub(..., inline_code_replacer, s) from position p
RECURSIVE inline_codes_from(_, _, _)
inline_codes_from(s, p, n) ==
    IF p > Len(s) THEN [text |-> <<>>, stored |-> <<>>]
    ELSE LET m == inline_code_at(s, p)
         IN  IF m.end = 0
             THEN LET rest == inline_codes_from(s, p + 1, n)
                  IN  [text |-> <<s[p]>> \o rest.text, stored |-> rest.stored]
             ELSE LET rest == inline_codes_from(s, m.end, n + 1)
                  IN  [text |-> placeholder(INLINE_CODE, n) \o rest.text,
                       stored |-> <<inline_code_stored(m)>> \o rest.stored]

\* re.sub(d + r'([^c]+?)' + d, r'<name>\1</name>', s) from position p
RECURSIVE delimited_from(_, _, _, _, _)
delimited_from(s, p, d, c, name) ==
    IF p > Len(s) THEN <<>>
    ELSE LET m == delimited_at(s, p, d, c)
         IN  IF m.end = 0 THEN <<s[p]>> \o delimited_from(s, p + 1, d, c, name)
             ELSE TagOpen(name) \o m.group1 \o TagClose(name)
                  \o delimited_from(s, m.end, d, c, name)

\* link_replacer(match)
link_replacer(m) == AnchorTag(escape(m.group2), m.group1)

\* re.sub(..., link_replacer, s) from position p
RECURSIVE links_from(_, _)
links_from(s, p) ==
    IF p > Len(s) THEN <<>>
    ELSE LET m == link_at(s, p)
         IN  IF m.end = 0 THEN <<s[p]>> \o links_from(s, p + 1)
             ELSE link_replacer(m) \o links_from(s, m.end)

\* re.sub(r'\|\|(.+?)\|\|', r'<tg-spoiler>\1</tg-spoiler>', s) from position p
RECURSIVE spoilers_from(_, _)
spoilers_from(s, p) ==
    IF p > Len(s) THEN <<>>
    ELSE LET m == spoiler_at(s, p)
         IN  IF m.end = 0 THEN <<s[p]>> \o spoilers_from(s, p + 1)
             ELSE SpoilerOpen \o m.group1 \o SpoilerClose \o spoilers_from(s, m.end)

\* for i, code in enumerate(stored): text = text.replace(placeholder, code)
RECURSIVE restore_from(_, _, _, _)
restore_from(s, name, stored, i) ==
    IF i > Len(stored) THEN s
    ELSE restore_from(replace(s, placeholder(name, i - 1), stored[i]), name, stored, i + 1)

restore(s, name, stored) == restore_from(s, name, stored, 1)

----------------------------------------------------------------------------
(* markdown_to_html: the inputs and the passes                             *)

\* Raw texts are concatenations of at most MaxMdFrags atoms of one family
MaxMdFrags == 5

FenceLine == Fence \o <<NL>>

\* emphasis delimiters
MdInline == {<<"*","*">>, <<"~","~">>, <<"a">>, <<"_">>, <<"|","|">>, <<"*">>}
\* fenced and inline code
MdCode == {FenceLine, Fence, <<"*">>, <<"a">>, <<Backtick>>, <<"<">>}
\* text without Markdown
MdPlain == {<<"a">>, <<" ">>, <<"<">>, <<">">>, <<"&">>, <<NL>>}
\* links
MdLinks == {<<"[">>, <<"a">>, <<"]","(">>, <<")">>, <<"_">>, <<"&">>}
\* tables, and block comments
MdTables == {<<"|","a","|","b","|">>, <<"|","-","|","-","|">>, <<NL>>,
             <<"|","1","|","2","2","|">>, <<"/","*">>, <<"*","/">>}

\* tables with a cell to escape, and tables written without outer pipes
MdCells == {<<"|","<","|","a","|">>, <<"|","-","|","-","|">>, <<NL>>,
            <<"a","|","b">>, <<"-","-","-","|","-","-","-">>, <<"1","|","2","2">>}

MdFamilies == {MdInline, MdCode, MdPlain, MdLinks, MdTables, MdCells}

\* the raw texts of one family
MdTexts(F) == {join(fs) : fs \in FragSeqs(F, MaxMdFrags)}

\* the call markdown_to_html(text); smart_split_message is not running
MdInit ==
    /\ \E F \in MdFamilies : md_raw \in MdTexts(F)
    /\ md_text = md_raw
    /\ md_pc = "comments"
    /\ code_blocks = <<>>
    /\ table_blocks = <<>>
    /\ inline_codes = <<>>
    /\ text = <<>>
    /\ max_length = 0
    /\ pc = "idle"
    /\ parts = <<>>
    /\ blocks = <<>>
    /\ bi = 1
    /\ current_part = <<>>
    /\ open_tags = <<>>
    /\ sentences = <<>>
    /\ si = 1
    /\ error = "none"
    /\ emitted = <<>>
    /\ scan_chunk = <<>>
    /\ scan_pos = 1
    /\ track_pc = "idle"
    /\ last_match = [at |-> 0, before |-> <<>>]
    /\ users = [u \in UserIds |-> NoRow]
    /\ subscriptions = <<>>
    /\ message_history = [u \in UserIds |-> <<>>]
    /\ clock = Midnight(0)
    /\ db_result = NoResult
    /\ tasks = <<>>
    /\ outbox = <<>>
    /\ forwarded = <<>>
    /\ fsm_state = [u \in UserIds |-> NoState]
    /\ db_queries = <<>>
    /\ send_pc = "idle"
    /\ send_i = 0

\* line 10
remove_comments(s) == comments_from(s, 1)
strip_comments ==
    /\ md_pc = "comments"
    /\ md_text' = remove_comments(md_text)
    /\ md_pc' = "code_blocks"
    /\ UNCHANGED <<md_raw, code_blocks, table_blocks, inline_codes>>
    /\ UNCHANGED split_vars
    /\ UNCHANGED track_vars
    /\ UNCHANGED app_vars

\* lines 13-20
extract_code_blocks ==
    /\ md_pc = "code_blocks"
    /\ LET r == code_blocks_from(md_text, 1, 0)
       IN  md_text' = r.text /\ code_blocks' = r.stored
    /\ md_pc' = "tables"
    /\ UNCHANGED <<md_raw, table_blocks, inline_codes>>
    /\ UNCHANGED split_vars
    /\ UNCHANGED track_vars
    /\ UNCHANGED app_vars

\* lines 23-82
extract_tables ==
    /\ md_pc = "tables"
    /\ LET r == tables_from(md_text, 1, 0)
       IN  md_text' = r.text /\ table_blocks' = r.stored
    /\ md_pc' = "inline_code"
    /\ UNCHANGED <<md_raw, code_blocks, inline_codes>>
    /\ UNCHANGED split_vars
    /\ UNCHANGED track_vars
    /\ UNCHANGED app_vars

\* lines 85-91
extract_inline_code ==
    /\ md_pc = "inline_code"
    /\ LET r == inline_codes_from(md_text, 1, 0)
       IN  md_text' = r.text /\ inline_codes' = r.stored
    /\ md_pc' = "bold"
    /\ UNCHANGED <<md_raw, code_blocks, table_blocks>>
    /\ UNCHANGED split_vars
    /\ UNCHANGED track_vars
    /\ UNCHANGED app_vars

\* lines 94-95
bold(s) ==
    delimited_from(delimited_from(s, 1, <<"*","*">>, "*", <<"b">>), 1, <<"_","_">>, "_", <<"b">>)
bold_pass ==
    /\ md_pc = "bold"
    /\ md_text' = bold(md_text)
    /\ md_pc' = "italic"
    /\ UNCHANGED <<md_raw, code_blocks, table_blocks, inline_codes>>
    /\ UNCHANGED split_vars
    /\ UNCHANGED track_vars
    /\ UNCHANGED app_vars

\* lines 98-99
italic(s) ==
    delimited_from(delimited_from(s, 1, <<"*">>, "*", <<"i">>), 1, <<"_">>, "_", <<"i">>)
italic_pass ==
    /\ md_pc = "italic"
    /\ md_text' = italic(md_text)
    /\ md_pc' = "strike"
    /\ UNCHANGED <<md_raw, code_blocks, table_blocks, inline_codes>>
    /\ UNCHANGED split_vars
    /\ UNCHANGED track_vars
    /\ UNCHANGED app_vars

\* line 102
strike(s) == delimited_from(s, 1, <<"~","~">>, "~", <<"s">>)
strike_pass ==
    /\ md_pc = "strike"
    /\ md_text' = strike(md_text)
    /\ md_pc' = "links"
    /\ UNCHANGED <<md_raw, code_blocks, table_blocks, inline_codes>>
    /\ UNCHANGED split_vars
    /\ UNCHANGED track_vars
    /\ UNCHANGED app_vars

\* lines 105-110
links(s) == links_from(s, 1)
links_pass ==
    /\ md_pc = "links"
    /\ md_text' = links(md_text)
    /\ md_pc' = "spoilers"
    /\ UNCHANGED <<md_raw, code_blocks, table_blocks, inline_codes>>
    /\ UNCHANGED split_vars
    /\ UNCHANGED track_vars
    /\ UNCHANGED app_vars

\* line 113
spoilers(s) == spoilers_from(s, 1)
spoilers_pass ==
    /\ md_pc = "spoilers"
    /\ md_text' = spoilers(md_text)
    /\ md_pc' = "restore"
    /\ UNCHANGED <<md_raw, code_blocks, table_blocks, inline_codes>>
    /\ UNCHANGED split_vars
    /\ UNCHANGED track_vars
    /\ UNCHANGED app_vars

\* lines 116-123
restore_all(s, ic, tb, cb) ==
    restore(restore(restore(s, INLINE_CODE, ic), TABLE_BLOCK, tb), CODE_BLOCK, cb)

\* lines 116-125
restore_blocks ==
    /\ md_pc = "restore"
    /\ md_text' = restore_all(md_text, inline_codes, table_blocks, code_blocks)
    /\ md_pc' = "done"
    /\ UNCHANGED <<md_raw, code_blocks, table_blocks, inline_codes>>
    /\ UNCHANGED split_vars
    /\ UNCHANGED track_vars
    /\ UNCHANGED app_vars

MdNext ==
    \/ strip_comments
    \/ extract_code_blocks
    \/ extract_tables
    \/ extract_inline_code
    \/ bold_pass
    \/ italic_pass
    \/ strike_pass
    \/ links_pass
    \/ spoilers_pass
    \/ restore_blocks

\* markdown_to_html as a function: all passes in order
markdown_to_html(raw) ==
    LET cb == code_blocks_from(remove_comments(raw), 1, 0)
        tb == tables_from(cb.text, 1, 0)
        ic == inline_codes_from(tb.text, 1, 0)
    IN  restore_all(spoilers(links(strike(italic(bold(ic.text))))),
                    ic.stored, tb.stored, cb.stored)

----------------------------------------------------------------------------
(* track_tags: one call, match by match                                    *)

\* Chunks are concatenations of at most MaxTags tokens
MaxTags == 4

TokB == <<"<","b",">">>
TokBClose == <<"<","/","b",">">>
TokBold == <<"<","b","o","l","d",">">>
TokOther == <<"<","T",">">>
TokAnchor == <<"<","a"," ","h","r","e","f","=","\"","u","\"",">">>
TokAnchorClose == <<"<","/","a",">">>
TokText == <<"x">>

TrackTokens == {TokB, TokBClose, TokBold, TokOther, TokAnchor, TokAnchorClose,
                SpoilerOpen, SpoilerClose, TokText}

TrackChunks == {join(fs) : fs \in FragSeqs(TrackTokens, MaxTags)}

\* re.finditer(tag_pattern, text_chunk): the position of the first match at
\* or after p, 0 if there is none
RECURSIVE next_match(_, _)
next_match(s, p) ==
    IF p > Len(s) THEN 0
    ELSE IF tag_match(s, p).kind # "none" THEN p
    ELSE next_match(s, p + 1)

NoStep == [at |-> 0, before |-> <<>>]

in_track == track_pc = "scan" /\ next_match(scan_chunk, scan_pos) # 0
match_pos == next_match(scan_chunk, scan_pos)
this_match == tag_match(scan_chunk, match_pos)

\* what every branch of the loop body leaves as it is or moves on
track_advance ==
    /\ scan_pos' = this_match.end + 1
    /\ last_match' = [at |-> match_pos, before |-> open_tags]
    /\ UNCHANGED <<scan_chunk, track_pc>>
    /\ UNCHANGED <<text, max_length, pc, parts, blocks, bi, current_part,
                   sentences, si, error, emitted>>
    /\ UNCHANGED md_vars
    /\ UNCHANGED app_vars

\* lines 198-199
track_spoiler_open ==
    /\ in_track
    /\ this_match.kind = "spoiler_open"
    /\ open_tags' = Append(open_tags, SpoilerOpen)
    /\ track_advance

\* lines 200-202
track_spoiler_close ==
    /\ in_track
    /\ this_match.kind = "spoiler_close"
    /\ open_tags' = pop_spoiler(open_tags)
    /\ track_advance

\* lines 203-209
track_close ==
    /\ in_track
    /\ this_match.kind = "close"
    /\ open_tags' = pop_matching(open_tags, this_match.tag_name)
    /\ track_advance

\* lines 210-211
track_open ==
    /\ in_track
    /\ this_match.kind = "open"
    /\ open_tags' = Append(open_tags, SubSeq(scan_chunk, match_pos, this_match.end))
    /\ track_advance

\* the for loop of line 197 is exhausted
track_return ==
    /\ track_pc = "scan"
    /\ next_match(scan_chunk, scan_pos) = 0
    /\ track_pc' = "done"
    /\ UNCHANGED <<scan_chunk, scan_pos, last_match>>
    /\ UNCHANGED split_vars
    /\ UNCHANGED md_vars
    /\ UNCHANGED app_vars

\* the call track_tags(text_chunk) with open_tags empty; neither
\* smart_split_message's loop nor markdown_to_html is running
TrackInit ==
    /\ scan_chunk \in TrackChunks
    /\ scan_pos = 1
    /\ track_pc = "scan"
    /\ last_match = NoStep
    /\ open_tags = <<>>
    /\ text = <<>>
    /\ max_length = 0
    /\ pc = "idle"
    /\ parts = <<>>
    /\ blocks = <<>>
    /\ bi = 1
    /\ current_part = <<>>
    /\ sentences = <<>>
    /\ si = 1
    /\ error = "none"
    /\ emitted = <<>>
    /\ md_raw = <<>>
    /\ md_text = <<>>
    /\ md_pc = "idle"
    /\ code_blocks = <<>>
    /\ table_blocks = <<>>
    /\ inline_codes = <<>>
    /\ users = [u \in UserIds |-> NoRow]
    /\ subscriptions = <<>>
    /\ message_history = [u \in UserIds |-> <<>>]
    /\ clock = Midnight(0)
    /\ db_result = NoResult
    /\ tasks = <<>>
    /\ outbox = <<>>
    /\ forwarded = <<>>
    /\ fsm_state = [u \in UserIds |-> NoState]
    /\ db_queries = <<>>
    /\ send_pc = "idle"
    /\ send_i = 0

TrackNext ==
    \/ track_spoiler_open
    \/ track_spoiler_close
    \/ track_close
    \/ track_open
    \/ track_return

----------------------------------------------------------------------------
(* database.py: calls of the methods as time passes                        *)

\* the clock is read on the days DaysFollowed, and within a second up to
\* microsecond MaxMicro
DaysFollowed == {0, 1, 7, 8}
MaxMicro == 1
\* at most MaxSubscriptions rows of table subscriptions, and at most
\* MaxRequests calls of update_stats for a user
MaxSubscriptions == 2
MaxRequests == 3
\* the users the methods are called for
DbUsers == {1}

\* bot.py lines 104-108: SUBSCRIPTION_PRICES[period]['days']
SUBSCRIPTION_DAYS == [week |-> 7, month |-> 30, year |-> 60]
Periods == {"week", "month", "year"}

\* the calls of update_stats logged for the user on the day
requests_logged(log, u, d) ==
    Cardinality({i \in 1..Len(log) :
        log[i].method = "update_stats" /\ log[i].user_id = u /\ log[i].day = d})

\* time passes: to a later microsecond of the second, or to a later day
advance_clock ==
    /\ \/ /\ clock.micro < MaxMicro
          /\ clock' = Time(clock.day, clock.sec, clock.micro + 1)
       \/ \E d \in DaysFollowed, us \in 0..MaxMicro :
             /\ d > clock.day
             /\ clock' = Time(d, clock.sec, us)
    /\ db_result' = NoResult
    /\ UNCHANGED <<users, subscriptions, message_history>>
    /\ UNCHANGED bot_vars
    /\ UNCHANGED util_vars

\* db.add_user(user_id, username, full_name)
db_add_user ==
    /\ \E u \in DbUsers : users' = add_user(users, u, clock)
    /\ db_result' = NoResult
    /\ UNCHANGED <<subscriptions, message_history, clock>>
    /\ UNCHANGED bot_vars
    /\ UNCHANGED util_vars

\* db.update_stats(user_id, input_tokens, output_tokens, cost) for a user
\* that has a row
db_update_stats ==
    /\ \E u \in DbUsers :
          /\ users[u].present
          /\ users[u].message_count < MaxRequests
          /\ users' = update_stats(users, u, 1, 1, 1, clock)
          /\ db_queries' = Append(db_queries,
                [method |-> "update_stats", user_id |-> u, day |-> today(clock)])
    /\ db_result' = NoResult
    /\ UNCHANGED <<subscriptions, message_history, clock>>
    /\ UNCHANGED <<tasks, outbox, forwarded, fsm_state, send_pc, send_i>>
    /\ UNCHANGED util_vars

\* db.get_remaining_requests(user_id)
db_get_remaining_requests ==
    /\ \E u \in DbUsers :
          LET r == get_remaining_requests(users, subscriptions, u, clock)
          IN  /\ db_result' = [method |-> "get_remaining_requests", user_id |-> u,
                               raised |-> r.raised, value |-> r.value,
                               is_active |-> FALSE]
              /\ subscriptions' = r.subs
    /\ UNCHANGED <<users, message_history, clock>>
    /\ UNCHANGED bot_vars
    /\ UNCHANGED util_vars

\* db.get_subscription_info(user_id)
db_get_subscription_info ==
    /\ \E u \in DbUsers :
          LET r == get_subscription_info(subscriptions, u, clock)
          IN  /\ db_result' = [method |-> "get_subscription_info", user_id |-> u,
                               raised |-> r.raised, value |-> 0,
                               is_active |-> r.is_active]
              /\ subscriptions' = r.subs
    /\ UNCHANGED <<users, message_history, clock>>
    /\ UNCHANGED bot_vars
    /\ UNCHANGED util_vars

\* bot.py lines 333-360: a payment of the user for a period; the handler
\* adds the subscription and answers the user
successful_payment_handler ==
    /\ Len(subscriptions) < MaxSubscriptions
    /\ \E u \in DbUsers, period \in Periods :
          /\ subscriptions' =
                add_subscription(subscriptions, u, SUBSCRIPTION_DAYS[period], clock)
          /\ outbox' = Append(outbox, [to |-> u, update |-> 0, kind |-> "paid",
                                        part |-> 0])
    /\ db_result' = NoResult
    /\ UNCHANGED <<users, message_history, clock>>
    /\ UNCHANGED <<tasks, forwarded, fsm_state, db_queries, send_pc, send_i>>
    /\ UNCHANGED util_vars

\* the tables are empty and the clock is at some microsecond of day 0
DbInit ==
    /\ users = [u \in UserIds |-> NoRow]
    /\ subscriptions = <<>>
    /\ message_history = [u \in UserIds |-> <<>>]
    /\ clock \in {Time(0, 0, us) : us \in 0..MaxMicro}
    /\ db_result = NoResult
    /\ tasks = <<>>
    /\ outbox = <<>>
    /\ forwarded = <<>>
    /\ fsm_state = [u \in UserIds |-> NoState]
    /\ db_queries = <<>>
    /\ send_pc = "idle"
    /\ send_i = 0
    /\ text = <<>>
    /\ max_length = 0
    /\ pc = "idle"
    /\ parts = <<>>
    /\ blocks = <<>>
    /\ bi = 1
    /\ current_part = <<>>
    /\ open_tags = <<>>
    /\ sentences = <<>>
    /\ si = 1
    /\ error = "none"
    /\ emitted = <<>>
    /\ scan_chunk = <<>>
    /\ scan_pos = 1
    /\ track_pc = "idle"
    /\ last_match = [at |-> 0, before |-> <<>>]
    /\ md_raw = <<>>
    /\ md_text = <<>>
    /\ md_pc = "idle"
    /\ code_blocks = <<>>
    /\ table_blocks = <<>>
    /\ inline_codes = <<>>

DbNext ==
    \/ advance_clock
    \/ db_add_user
    \/ db_update_stats
    \/ db_get_remaining_requests
    \/ db_get_subscription_info
    \/ successful_payment_handler

----------------------------------------------------------------------------
(* bot.py: chat_handler, one task of the dispatcher per message             *)

\* bot.py line 76
COOLDOWN_SECONDS == 7
\* bot.py line 574: await asyncio.sleep(3)
TYPING_SECONDS == 3

\* at most MaxUpdates messages are received, the clock of a run is followed
\* for MaxSeconds seconds, and an answer is split in at most MaxParts chunks
MaxUpdates == 2
MaxSeconds == 7
MaxParts == 2

\* the outcomes of requests.post and raise_for_status (lines 602-603)
PostOutcomes == {"ok", "timeout", "http_error"}

\* a message handed to Telegram: the chat, the update the handler is
\* handling, what the message is, and for a chunk of an answer its index
Sent(u, update, kind, part) ==
    [to |-> u, update |-> update, kind |-> kind, part |-> part]

\* lines 531-542: delay_seconds > 0
too_early(time_dict) ==
    seconds_between(strptime_seconds(time_dict.current_time),
                    strptime_seconds(time_dict.last_activity)) < COOLDOWN_SECONDS

\* lines 498-572: what the handler decides before its first await, and the
\* tables after its calls of Database
admission(us, subs, u, now) ==
    LET it_new_user == ~check_user(us, u)
        us1 == IF it_new_user THEN add_user(us, u, now) ELSE us
        subscription == get_subscription_info(subs, u, now)
        is_premium == subscription.is_active
        left == get_remaining_requests(us1, subscription.subs, u, now)
        verdict ==
            IF subscription.raised \/ left.raised THEN "error"
            ELSE IF left.value <= 0 THEN "limit"
            ELSE IF is_premium THEN "go"
            ELSE IF it_new_user THEN "go"
            ELSE IF too_early(get_user_last_act(us1, u, now)) THEN "wait"
            ELSE "go"
    IN  [verdict |-> verdict, it_new_user |-> it_new_user,
         is_premium |-> is_premium, users |-> us1,
         subs |-> IF subscription.raised THEN subs ELSE left.subs]

\* lines 620-622 run whatever the outcome of the request
saved_always(outcome, us, mh, u, update, now) ==
    [users |-> update_stats(us, u, 1, 1, 1, now),
     history |-> add_message(add_message(mh, u, "user", update),
                             u, "assistant", update)]

\* lines 602-622: the tables after the request; an exception of line 602 or
\* 603 leaves lines 620-622 unexecuted
saved(outcome, us, mh, u, update, now) ==
    IF outcome = "ok"
    THEN [users |-> update_stats(us, u, 1, 1, 1, now),
          history |-> add_message(add_message(mh, u, "user", update),
                                  u, "assistant", update)]
    ELSE [users |-> us, history |-> mh]

\* lines 631-637: what the handler hands to Telegram first for an answer of
\* n chunks
first_sent(u, update, n) ==
    IF n > 1 THEN Sent(u, update, "part", 1) ELSE Sent(u, update, "answer", 0)

\* lines 494-574: a message of a user arrives; the handler runs up to its
\* first await, which is the answer of a refusal (after which it returns)
\* or the chat action and the sleep
chat_handler_start ==
    /\ Len(tasks) < MaxUpdates
    /\ \E u \in UserIds :
          LET a == admission(users, subscriptions, u, clock)
              update == Len(tasks) + 1
          IN  /\ users' = a.users
              /\ subscriptions' = a.subs
              /\ tasks' = Append(tasks,
                    [user_id |-> u,
                     pc |-> IF a.verdict = "go" THEN "sleeping" ELSE "done",
                     started |-> clock,
                     it_new_user |-> a.it_new_user,
                     is_premium |-> a.is_premium,
                     n_parts |-> 0, n_sent |-> 0])
              /\ outbox' = IF a.verdict = "go" THEN outbox
                           ELSE Append(outbox, Sent(u, update, a.verdict, 0))
    /\ UNCHANGED <<message_history, clock, db_result>>
    /\ UNCHANGED <<forwarded, fsm_state, db_queries, send_pc, send_i>>
    /\ UNCHANGED util_vars

\* a second passes
tick ==
    /\ clock.sec < MaxSeconds
    /\ clock' = Time(clock.day, clock.sec + 1, clock.micro)
    /\ UNCHANGED <<users, subscriptions, message_history, db_result>>
    /\ UNCHANGED bot_vars
    /\ UNCHANGED util_vars

\* lines 576-637: the sleep of a handler is over; it posts the request,
\* and either saves the exchange and hands the first chunk of the answer
\* to Telegram, or hands the error text to Telegram and returns
chat_handler_request ==
    /\ \E i \in 1..Len(tasks), outcome \in PostOutcomes, n \in 1..MaxParts :
          LET t == tasks[i]
              s == saved(outcome, users, message_history, t.user_id, i, clock)
          IN  /\ t.pc = "sleeping"
              /\ seconds_between(clock, t.started) >= TYPING_SECONDS
              /\ outcome # "ok" => n = 1
              /\ forwarded' = Append(forwarded,
                    [update |-> i, user_id |-> t.user_id, started |-> t.started,
                     it_new_user |-> t.it_new_user, is_premium |-> t.is_premium,
                     outcome |-> outcome])
              /\ users' = s.users
              /\ message_history' = s.history
              /\ outbox' = Append(outbox,
                    IF outcome = "ok" THEN first_sent(t.user_id, i, n)
                    ELSE Sent(t.user_id, i, outcome, 0))
              /\ tasks' = [tasks EXCEPT ![i].pc =
                               IF outcome = "ok" /\ n > 1 THEN "sending" ELSE "done",
                                        ![i].n_parts = IF outcome = "ok" THEN n ELSE 0,
                                        ![i].n_sent = IF outcome = "ok" THEN 1 ELSE 0]
    /\ UNCHANGED <<subscriptions, clock, db_result>>
    /\ UNCHANGED <<fsm_state, db_queries, send_pc, send_i>>
    /\ UNCHANGED util_vars

\* lines 632-634: the send of a chunk has returned; the handler hands the
\* next chunk to Telegram
chat_handler_next_part ==
    /\ \E i \in 1..Len(tasks) :
          LET t == tasks[i]
          IN  /\ t.pc = "sending"
              /\ t.n_sent < t.n_parts
              /\ outbox' = Append(outbox, Sent(t.user_id, i, "part", t.n_sent + 1))
              /\ tasks' = [tasks EXCEPT ![i].n_sent = @ + 1,
                                        ![i].pc = IF t.n_sent + 1 = t.n_parts
                                                  THEN "done" ELSE "sending"]
    /\ UNCHANGED db_vars
    /\ UNCHANGED <<forwarded, fsm_state, db_queries, send_pc, send_i>>
    /\ UNCHANGED util_vars

\* a user that used up the free limit the day before
old_user_row ==
    [present |-> TRUE, last_activity |-> current_timestamp(Midnight(0)),
     message_count |-> FREE_DAILY_LIMIT, today_requests |-> FREE_DAILY_LIMIT,
     last_request_date |-> adapt_date(0),
     total_input_tokens |-> FREE_DAILY_LIMIT,
     total_output_tokens |-> FREE_DAILY_LIMIT, total_cost |-> FREE_DAILY_LIMIT]

\* the subscriptions of the users of S, paid on day 0 for a week
week_paid(S) ==
    [i \in 1..Cardinality(S) |->
        [user_id |-> CHOOSE u \in S : Cardinality({v \in S : v < u}) = i - 1,
         end_date |-> adapt_datetime(Time(7, 0, 1)),
         is_active |-> TRUE]]

\* day 1 begins: every user is unknown or was active the day before, and
\* has a subscription or none; no message has arrived
BotInit ==
    /\ users \in [UserIds -> {NoRow, old_user_row}]
    /\ \E S \in SUBSET UserIds : subscriptions = week_paid(S)
    /\ message_history = [u \in UserIds |-> <<>>]
    /\ clock = Time(1, 0, 1)
    /\ db_result = NoResult
    /\ tasks = <<>>
    /\ outbox = <<>>
    /\ forwarded = <<>>
    /\ fsm_state = [u \in UserIds |-> NoState]
    /\ db_queries = <<>>
    /\ send_pc = "idle"
    /\ send_i = 0
    /\ text = <<>>
    /\ max_length = 0
    /\ pc = "idle"
    /\ parts = <<>>
    /\ blocks = <<>>
    /\ bi = 1
    /\ current_part = <<>>
    /\ open_tags = <<>>
    /\ sentences = <<>>
    /\ si = 1
    /\ error = "none"
    /\ emitted = <<>>
    /\ scan_chunk = <<>>
    /\ scan_pos = 1
    /\ track_pc = "idle"
    /\ last_match = [at |-> 0, before |-> <<>>]
    /\ md_raw = <<>>
    /\ md_text = <<>>
    /\ md_pc = "idle"
    /\ code_blocks = <<>>
    /\ table_blocks = <<>>
    /\ inline_codes = <<>>

BotNext ==
    \/ chat_handler_start
    \/ tick
    \/ chat_handler_request
    \/ chat_handler_next_part

----------------------------------------------------------------------------
(* bot.py: chat_handler, the answer handed to Telegram                     *)

\* the lengths standing for the 4096 of line 627
DeliverLengths == {m \in MaxLengths : m > 0}

\* a text handed to message.answer: a chunk, the whole answer or a notice
Handed(kind, part, t) == [kind |-> kind, part |-> part, text |-> t]

\* line 650: the notice of an unexpected error
ErrorNotice == Handed("error", 0, <<>>)

\* lines 633 and 636 with line 650: the call of message.answer, and the
\* notice sent when the call raises
answered(box, m, raises) ==
    IF raises THEN Append(Append(box, m), ErrorNotice) ELSE Append(box, m)

\* lines 631-636: the first call of message.answer, which gets the first of
\* several chunks, or formatted_answer when the list has one chunk or none
deliver_first ==
    /\ pc = "done"
    /\ send_pc = "idle"
    /\ \E raises \in BOOLEAN :
          IF Len(parts) > 1
          THEN /\ outbox' = answered(outbox, Handed("part", 1, parts[1]), raises)
               /\ send_pc' = IF raises THEN "failed" ELSE "sending"
          ELSE /\ outbox' = answered(outbox, Handed("answer", 0, text), raises)
               /\ send_pc' = IF raises THEN "failed" ELSE "sent"
    /\ send_i' = 1
    /\ UNCHANGED <<tasks, forwarded, fsm_state, db_queries>>
    /\ UNCHANGED db_vars
    /\ UNCHANGED util_vars

\* lines 632-633: the next iteration of the loop, entered when the call for
\* the chunk before has returned
deliver_next ==
    /\ send_pc = "sending"
    /\ \E raises \in BOOLEAN :
          IF send_i < Len(parts)
          THEN /\ outbox' = answered(outbox,
                       Handed("part", send_i + 1, parts[send_i + 1]), raises)
               /\ send_i' = send_i + 1
               /\ send_pc' = IF raises THEN "failed" ELSE "sending"
          ELSE /\ ~raises
               /\ send_pc' = "sent"
               /\ UNCHANGED <<outbox, send_i>>
    /\ UNCHANGED <<tasks, forwarded, fsm_state, db_queries>>
    /\ UNCHANGED db_vars
    /\ UNCHANGED util_vars

\* line 627 on a formatted answer, with the tables and the dispatcher idle
DeliverInit ==
    /\ text \in SplitTexts
    /\ max_length \in DeliverLengths
    /\ pc = "start"
    /\ parts = <<>>
    /\ blocks = <<>>
    /\ bi = 1
    /\ current_part = <<>>
    /\ open_tags = <<>>
    /\ sentences = <<>>
    /\ si = 1
    /\ error = "none"
    /\ emitted = <<>>
    /\ scan_chunk = <<>>
    /\ scan_pos = 1
    /\ track_pc = "idle"
    /\ last_match = [at |-> 0, before |-> <<>>]
    /\ md_raw = <<>>
    /\ md_text = <<>>
    /\ md_pc = "idle"
    /\ code_blocks = <<>>
    /\ table_blocks = <<>>
    /\ inline_codes = <<>>
    /\ users = [u \in UserIds |-> NoRow]
    /\ subscriptions = <<>>
    /\ message_history = [u \in UserIds |-> <<>>]
    /\ clock = Midnight(0)
    /\ db_result = NoResult
    /\ tasks = <<>>
    /\ outbox = <<>>
    /\ forwarded = <<>>
    /\ fsm_state = [u \in UserIds |-> NoState]
    /\ db_queries = <<>>
    /\ send_pc = "idle"
    /\ send_i = 0

DeliverNext ==
    \/ return_whole
    \/ segment
    \/ split_oversized
    \/ overflow_split_text
    \/ overflow_fresh_special
    \/ overflow_fits_reopened
    \/ append_block
    \/ skip_blank
    \/ append_sentence
    \/ flush_sentence
    \/ sentences_done
    \/ finish
    \/ deliver_first
    \/ deliver_next

----------------------------------------------------------------------------
(* bot.py: the handlers of the administrators                              *)

\* line 82: the ids read from ADMIN_IDS; the other users are no administrators
ADMIN_IDS == {1}

\* calls of the panel and of its buttons that are followed
MaxAdminCalls == 3

\* messages handled by process_broadcast that are followed
MaxBroadcasts == 2

\* is_admin with every caller taken for an administrator
is_admin_anyone(user_id) == TRUE

\* lines 129-131
is_admin(user_id) == user_id \in ADMIN_IDS

\* the rows of SELECT user_id FROM users, in the order of the primary key
id_list(S) ==
    [i \in 1..Cardinality(S) |->
        CHOOSE u \in S : Cardinality({v \in S : v < u}) = i - 1]

\* what the panel and its buttons answer a caller with
PanelKinds == {"refusal", "panel", "stats", "prompt"}

\* the number of calls of the panel and of its buttons so far
calls_made == Len(SelectSeq(outbox, LAMBDA m : m.kind \in PanelKinds))

\* a query of an administrator's handler
Query(method, caller) == [method |-> method, user_id |-> caller, day |-> clock.day]

\* lines 279-298: /admin
admin_panel ==
    /\ calls_made < MaxAdminCalls
    /\ \E caller \in UserIds :
          outbox' = Append(outbox, Sent(caller, 0,
                        IF is_admin(caller) THEN "panel" ELSE "refusal", 0))
    /\ UNCHANGED <<tasks, forwarded, fsm_state, db_queries, send_pc, send_i>>
    /\ UNCHANGED db_vars
    /\ UNCHANGED util_vars

\* the shape of lines 362-452: a button that answers with the result of a
\* query of the database
admin_button(method) ==
    /\ calls_made < MaxAdminCalls
    /\ \E caller \in UserIds :
          IF is_admin(caller)
          THEN /\ db_queries' = Append(db_queries, Query(method, caller))
               /\ outbox' = Append(outbox, Sent(caller, 0, "stats", 0))
          ELSE /\ outbox' = Append(outbox, Sent(caller, 0, "refusal", 0))
               /\ UNCHANGED db_queries
    /\ UNCHANGED <<tasks, forwarded, fsm_state, send_pc, send_i>>
    /\ UNCHANGED db_vars
    /\ UNCHANGED util_vars

\* lines 362-387
admin_general_callback == admin_button("get_general_stats")

\* lines 389-407
admin_users_callback == admin_button("get_recent_users")

\* lines 409-432
admin_finance_callback == admin_button("get_finance_stats")

\* lines 434-452
admin_top_callback == admin_button("get_top_users")

\* lines 454-462: the button that asks for the text of a broadcast
admin_broadcast_callback ==
    /\ calls_made < MaxAdminCalls
    /\ \E caller \in UserIds :
          IF is_admin(caller)
          THEN /\ outbox' = Append(outbox, Sent(caller, 0, "prompt", 0))
               /\ fsm_state' = [fsm_state EXCEPT ![caller] = "waiting_broadcast"]
          ELSE /\ outbox' = Append(outbox, Sent(caller, 0, "refusal", 0))
               /\ UNCHANGED fsm_state
    /\ UNCHANGED <<tasks, forwarded, db_queries, send_pc, send_i>>
    /\ UNCHANGED db_vars
    /\ UNCHANGED util_vars

\* a run of process_broadcast: the caller, the rows it read, how many of
\* them it has tried, and its two counters
Broadcast(caller, ids) ==
    [user_id |-> caller, pc |-> "sending", recipients |-> ids, tried |-> 0,
     success |-> 0, failed |-> 0]

\* lines 464-472: a message of a caller whose state is waiting_broadcast, up
\* to the await of the status message
process_broadcast ==
    /\ Len(tasks) < MaxBroadcasts
    /\ \E caller \in UserIds :
          /\ fsm_state[caller] = "waiting_broadcast"
          /\ IF is_admin(caller)
             THEN /\ db_queries' = Append(db_queries,
                                          Query("get_all_user_ids", caller))
                  /\ tasks' = Append(tasks,
                        Broadcast(caller, id_list(get_all_user_ids(users))))
                  /\ outbox' = Append(outbox,
                                      Sent(caller, Len(tasks) + 1, "status", 0))
             ELSE UNCHANGED <<db_queries, tasks, outbox>>
    /\ UNCHANGED <<forwarded, fsm_state, send_pc, send_i>>
    /\ UNCHANGED db_vars
    /\ UNCHANGED util_vars

\* lines 474-480: one iteration of the loop, a send that returns or raises
process_broadcast_send ==
    /\ \E k \in 1..Len(tasks), raises \in BOOLEAN :
          LET t == tasks[k]
          IN  /\ t.pc = "sending"
              /\ t.tried < Len(t.recipients)
              /\ tasks' = [tasks EXCEPT ![k] =
                    [t EXCEPT !.tried = @ + 1,
                              !.success = IF raises THEN @ ELSE @ + 1,
                              !.failed = IF raises THEN @ + 1 ELSE @]]
              /\ outbox' = IF raises THEN outbox
                           ELSE Append(outbox, Sent(t.recipients[t.tried + 1],
                                                    k, "broadcast", 0))
    /\ UNCHANGED <<forwarded, fsm_state, db_queries, send_pc, send_i>>
    /\ UNCHANGED db_vars
    /\ UNCHANGED util_vars

\* lines 482-488: the report and state.clear()
process_broadcast_finish ==
    /\ \E k \in 1..Len(tasks) :
          LET t == tasks[k]
          IN  /\ t.pc = "sending"
              /\ t.tried = Len(t.recipients)
              /\ tasks' = [tasks EXCEPT ![k] = [t EXCEPT !.pc = "done"]]
              /\ outbox' = Append(outbox, Sent(t.user_id, k, "report", 0))
              /\ fsm_state' = [fsm_state EXCEPT ![t.user_id] = NoState]
    /\ UNCHANGED <<forwarded, db_queries, send_pc, send_i>>
    /\ UNCHANGED db_vars
    /\ UNCHANGED util_vars

\* some users are registered, nobody is in a state, the chunker is idle
AdminInit ==
    /\ users \in [UserIds -> {NoRow, old_user_row}]
    /\ subscriptions = <<>>
    /\ message_history = [u \in UserIds |-> <<>>]
    /\ clock = Time(1, 0, 1)
    /\ db_result = NoResult
    /\ tasks = <<>>
    /\ outbox = <<>>
    /\ forwarded = <<>>
    /\ fsm_state = [u \in UserIds |-> NoState]
    /\ db_queries = <<>>
    /\ send_pc = "idle"
    /\ send_i = 0
    /\ text = <<>>
    /\ max_length = 0
    /\ pc = "idle"
    /\ parts = <<>>
    /\ blocks = <<>>
    /\ bi = 1
    /\ current_part = <<>>
    /\ open_tags = <<>>
    /\ sentences = <<>>
    /\ si = 1
    /\ error = "none"
    /\ emitted = <<>>
    /\ scan_chunk = <<>>
    /\ scan_pos = 1
    /\ track_pc = "idle"
    /\ last_match = [at |-> 0, before |-> <<>>]
    /\ md_raw = <<>>
    /\ md_text = <<>>
    /\ md_pc = "idle"
    /\ code_blocks = <<>>
    /\ table_blocks = <<>>
    /\ inline_codes = <<>>

AdminNext ==
    \/ admin_panel
    \/ admin_general_callback
    \/ admin_users_callback
    \/ admin_finance_callback
    \/ admin_top_callback
    \/ admin_broadcast_callback
    \/ process_broadcast
    \/ process_broadcast_send
    \/ process_broadcast_finish

----------------------------------------------------------------------------
(* The specifications                                                      *)

\* calls of smart_split_message
SpecSplit == SplitInit /\ [][SplitNext]_vars

\* calls of smart_split_message on texts with links
SpecSplitTagged == SplitTaggedInit /\ [][SplitNext]_vars

\* calls of markdown_to_html
SpecConv == MdInit /\ [][MdNext]_vars

\* calls of track_tags
SpecTrack == TrackInit /\ [][TrackNext]_vars

\* calls of the methods of Database and payments, as days pass
SpecDb == DbInit /\ [][DbNext]_vars

\* messages handled by chat_handler, concurrently
SpecBot == BotInit /\ [][BotNext]_vars

\* the answer of one request split and handed to Telegram
SpecDeliver == DeliverInit /\ [][DeliverNext]_vars

\* calls of the administrators' handlers by administrators and others
SpecAdmin == AdminInit /\ [][AdminNext]_vars

----------------------------------------------------------------------------
(* Properties: vocabulary                                                  *)

\* the markup tag set: b, i, s, code, pre, a, tg-spoiler
TagNames == {<<"b">>, <<"i">>, <<"s">>, <<"c","o","d","e">>, <<"p","r","e">>,
             <<"a">>, <<"t","g","-","s","p","o","i","l","e","r">>}

\* an opening tag of the name starts at p (with or without attributes)
open_tag_at(s, p, name) ==
    /\ StartsWithAt(s, p, <<"<">> \o name)
    /\ p + Len(name) + 1 <= Len(s)
    /\ s[p + Len(name) + 1] \in {">", " "}

\* the closing tag of the name starts at p
close_tag_at(s, p, name) == StartsWithAt(s, p, TagClose(name))

count_open(s, name) == Cardinality({p \in 1..Len(s) : open_tag_at(s, p, name)})
count_close(s, name) == Cardinality({p \in 1..Len(s) : close_tag_at(s, p, name)})

\* as many opening as closing tags of every name
balanced(s) == \A name \in TagNames : count_open(s, name) = count_close(s, name)

\* every closing tag closes the most recently opened unclosed tag, and none
\* stays open
RECURSIVE nesting_from(_, _, _)
nesting_from(s, p, stack) ==
    IF p > Len(s) THEN stack = <<>>
    ELSE IF \E n \in TagNames : open_tag_at(s, p, n)
    THEN nesting_from(s, p + 1,
                      Append(stack, CHOOSE n \in TagNames : open_tag_at(s, p, n)))
    ELSE IF \E n \in TagNames : close_tag_at(s, p, n)
    THEN /\ stack # <<>>
         /\ close_tag_at(s, p, stack[Len(stack)])
         /\ nesting_from(s, p + 1, SubSeq(stack, 1, Len(stack) - 1))
    ELSE nesting_from(s, p + 1, stack)

well_nested(s) == nesting_from(s, 1, <<>>)

contains(s, t) == Find(s, t, 1) # 0

split_done == pc = "done"
conv_done == md_pc = "done"

----------------------------------------------------------------------------
(* Properties of smart_split_message, checked under SpecSplit              *)

\* C1: for max_length > 0 every chunk in parts has length at most
\* max_length.
C1_ChunksWithinLimit ==
    max_length > 0 => \A k \in 1..Len(parts) : Len(parts[k]) <= max_length

\* C2: for a properly nested (hence tag-balanced) input and max_length > 0,
\* every chunk in parts has as many opening as closing tags of each name.
C2_ChunksBalanced ==
    (max_length > 0 /\ well_nested(text))
        => \A k \in 1..Len(parts) : balanced(parts[k])

\* chunk k without the re-opening tags put at its start and the closing tags
\* put at its end
logical_chunk(k) ==
    LET chunk == parts[k]
        opened == IF k > 1 THEN reopened(emitted[k - 1].open_tags) ELSE <<>>
        closed == get_close_tags_string(emitted[k].open_tags)
        a == IF StartsWith(chunk, opened) THEN Len(opened) + 1 ELSE 1
        b == IF Len(chunk) - Len(closed) >= a - 1 /\ EndsWith(chunk, closed)
             THEN Len(chunk) - Len(closed) ELSE Len(chunk)
    IN  SubSeq(chunk, a, b)

logical_content == join([k \in 1..Len(parts) |-> logical_chunk(k)])

\* C3: for an input longer than max_length, the chunks in order, without
\* their synthetic closing and re-opening tags, concatenate to the input.
\* (The inputs are narrowed to valid calls on properly nested text with no
\* <pre> block and no white space at its ends, so that what is lost or
\* added lies inside the text.)
C3_ContentPreserved ==
    (/\ split_done
     /\ max_length > 0
     /\ Len(text) > max_length
     /\ text = strip(text)
     /\ well_nested(text)
     /\ ~contains(text, PreOpen))
        => logical_content = text

\* C5: a text no longer than max_length is returned as the one-element list
\* of the text itself, nothing else being attempted.
C5_FastPath ==
    Len(text) <= max_length
        => /\ pc \in {"start", "done"}
           /\ split_done => parts = <<text>>

\* C5 witness: a text with white space at its ends that fits is returned whole.
C5_Witness ==
    /\ split_done
    /\ Len(text) <= max_length
    /\ text # strip(text)
    /\ contains(text, FragB)
    /\ parts = <<text>>

\* the text is one <pre>...</pre> block and nothing else
single_pre_block(t) ==
    /\ special_blocks(t) = <<[start |-> 1, end |-> Len(t)]>>
    /\ ~contains(pre_inner(t), PreOpen)

\* C6: a single <pre> block longer than max_length comes out as pieces each
\* wrapped in <pre>...</pre>, each of length at most max_length, cut at line
\* ends, whose inner contents concatenate to the inner content of the block.
C6_OversizedPreBlock ==
    (split_done /\ max_length > 0 /\ Len(text) > max_length /\ single_pre_block(text))
        => /\ \A k \in 1..Len(parts) :
                /\ StartsWith(parts[k], PreOpen)
                /\ EndsWith(parts[k], PreClose)
                /\ Len(parts[k]) <= max_length
           /\ \A k \in 1..(Len(parts) - 1) : EndsWith(pre_inner(parts[k]), <<NL>>)
           /\ join([k \in 1..Len(parts) |-> pre_inner(parts[k])]) = pre_inner(text)

\* C7: a chunk ended while tags t1..tn were open ends with </tn>...</t1>,
\* and the chunk after it begins with t1...tn.
C7_CarryOver ==
    (max_length > 0 /\ well_nested(text))
        => \A k \in 1..Len(parts) :
              emitted[k].open_tags # <<>>
                  => /\ EndsWith(parts[k], get_close_tags_string(emitted[k].open_tags))
                     /\ k < Len(parts)
                           => StartsWith(parts[k + 1],
                                         get_open_tags_string(emitted[k].open_tags))

\* C10: with max_length <= 0 the call ends at once with an error and no
\* chunks.
C10_NonPositiveRejected ==
    (max_length <= 0 /\ pc # "start")
        => (split_done /\ error # "none" /\ parts = <<>>)

----------------------------------------------------------------------------
(* Properties of markdown_to_html, checked under SpecConv                  *)

\* the inline passes 5-9 in order
inline_passes(s) == spoilers(links(strike(italic(bold(s)))))

\* C4: every fenced code block whose content matches an inline pattern is in
\* the output as <pre>, its escaped content, </pre>.
C4_CodeBlockProtected ==
    conv_done
        => \A k \in 1..Len(code_blocks) :
              inline_passes(pre_inner(code_blocks[k])) # pre_inner(code_blocks[k])
                  => contains(md_text, code_blocks[k])

\* C8: the output is properly nested: every tag opened is closed, and every
\* closing tag closes the most recently opened unclosed tag.  (Raw texts
\* holding "<" or ">" are left out: every tag of the output is then one the
\* converter wrote.)
C8_OutputWellNested ==
    (conv_done /\ \A k \in 1..Len(md_raw) : md_raw[k] \notin {"<", ">"})
        => well_nested(md_text)

\* the characters Markdown gives a meaning to
MarkdownChars == {"*", "_", "~", Backtick, "[", "]", "(", ")", "|", "/"}

\* <, > and & escaped, everything else as it is
escaped_literal(s) ==
    join([k \in 1..Len(s) |-> IF s[k] \in {"<", ">", "&"} THEN escape_char(s[k])
                              ELSE <<s[k]>>])

\* C9: a raw text without Markdown characters comes out unchanged but for
\* <, > and & escaped.
C9_PlainTextEscaped ==
    (conv_done /\ \A k \in 1..Len(md_raw) : md_raw[k] \notin MarkdownChars)
        => md_text = escaped_literal(md_raw)

\* the raw text is a pipe-delimited table and nothing else: a header row, a
\* separator row of dashes, colons and pipes ended by a line break, and data
\* rows
is_table_doc(raw) ==
    LET lines == split_char(raw, NL)
        n == IF lines[Len(lines)] = <<>> THEN Len(lines) - 1 ELSE Len(lines)
    IN  /\ n >= 2
        /\ Len(lines) >= 3
        /\ \A k \in 1..n : \E j \in 1..Len(lines[k]) : lines[k][j] = "|"
        /\ \A j \in 1..Len(lines[2]) : lines[2][j] \in {"-", ":", "|", " "}
        /\ \E j \in 1..Len(lines[2]) : lines[2][j] = "-"
        /\ \A j \in 1..Len(raw) : raw[j] \notin {"/", "*"}
        /\ table_cells(lines[1]) # <<>>

\* the width of a column: the greatest length of an escaped cell in it
escaped_col_widths(rows) ==
    [i \in 1..Len(rows[1]) |->
        Max({0} \cup {Len(escape(rows[k][i])) :
                        k \in {r \in 1..Len(rows) : Len(rows[r]) >= i}})]

\* the block the table is to be rendered as: escaped cells padded to the
\* column widths and joined by " | ", a dash line after the header
expected_table(raw) ==
    LET rows == table_rows(table_lines(raw))
        widths == escaped_col_widths(rows)
    IN  PreOpen \o <<NL>>
        \o join([k \in 1..Len(rows) |->
                   table_line(rows[k], widths)
                   \o (IF k = 1 THEN table_separator(widths) ELSE <<>>)])
        \o PreClose

\* C11: a raw text that is a pipe-delimited table is rendered by the table
\* pass as one <pre> block with every column padded to the greatest escaped
\* cell length, and the output holds that block.
C11_TableRendered ==
    (md_pc \in {"inline_code", "bold", "italic", "strike", "links", "spoilers",
                "restore", "done"}
     /\ is_table_doc(md_raw))
        => /\ table_blocks = <<expected_table(md_raw)>>
           /\ conv_done => contains(md_text, expected_table(md_raw))

\* every placeholder of the blocks stored is in the text
placeholders_intact(s, name, stored) ==
    \A k \in 1..Len(stored) : contains(s, placeholder(name, k - 1))

\* every rendering stored is in the text
renderings_present(s, stored) ==
    \A k \in 1..Len(stored) : contains(s, stored[k])

\* C12: the placeholders of the code blocks, tables and inline code extracted
\* reach the restore pass as they were written, and the output holds the
\* rendering of every block extracted.
C12_PlaceholdersRestored ==
    /\ md_pc = "restore"
          => /\ placeholders_intact(md_text, CODE_BLOCK, code_blocks)
             /\ placeholders_intact(md_text, TABLE_BLOCK, table_blocks)
             /\ placeholders_intact(md_text, INLINE_CODE, inline_codes)
    /\ conv_done
          => /\ renderings_present(md_text, code_blocks)
             /\ renderings_present(md_text, table_blocks)
             /\ renderings_present(md_text, inline_codes)

\* the raw text is one link [label](url) and nothing else
is_link_doc(raw) ==
    LET i == Find(raw, <<"]", "(">>, 1)
    IN  /\ Len(raw) >= 6
        /\ raw[1] = "["
        /\ raw[Len(raw)] = ")"
        /\ i > 2
        /\ i + 2 <= Len(raw) - 1
        /\ \A j \in 2..(i - 1) : raw[j] \notin {"[", "]"}
        /\ \A j \in (i + 2)..(Len(raw) - 1) : raw[j] \notin {"(", ")", "[", "]"}

link_label(raw) == SubSeq(raw, 2, Find(raw, <<"]", "(">>, 1) - 1)
link_url(raw) == SubSeq(raw, Find(raw, <<"]", "(">>, 1) + 2, Len(raw) - 1)

\* C13: a raw text that is one link [label](url) comes out as the anchor
\* whose href is the escaped url as written and whose label carries only the
\* markup of the earlier passes.
C13_LinkUrlAsWritten ==
    (conv_done /\ is_link_doc(md_raw))
        => md_text = AnchorTag(escape(link_url(md_raw)),
                               strike(italic(bold(link_label(md_raw)))))

\* the opening delimiters and what closes each
Openers ==
    {[open |-> d, close |-> d] :
        d \in {<<"*","*">>, <<"_","_">>, <<"*">>, <<"_">>, <<"~","~">>, Bars,
               <<Backtick>>}}
    \cup {[open |-> <<"[">>, close |-> <<")">>]}

\* the raw text is an opening delimiter followed by a body that holds no
\* closing delimiter for it, no construct of its own and nothing to escape
unmatched_opener(raw) ==
    \E d \in Openers :
        LET body == SubSeq(raw, Len(d.open) + 1, Len(raw))
        IN  /\ StartsWith(raw, d.open)
            /\ body # <<>>
            /\ ~contains(body, d.close)
            /\ \A j \in 1..Len(body) : body[j] \notin {"<", ">", "&"}
            /\ markdown_to_html(body) = body

\* C14: an opening delimiter with no closing delimiter after it yields no
\* tag: the text comes out as it was written.
C14_UnmatchedDelimiterLiteral ==
    (conv_done /\ unmatched_opener(md_raw)) => md_text = md_raw

\* the chunk has white space between two of its characters: a place where it
\* could be cut between words
has_word_boundary(chunk) ==
    \E j \in 2..(Len(chunk) - 1) : IsSpace(chunk[j])

\* C15: in a text without tags, a chunk longer than max_length has no word
\* boundary: a sentence too long for a chunk is cut between words.
C15_LongSentenceSplitAtWords ==
    (max_length > 0 /\ ~contains(text, <<"<">>))
        => \A k \in 1..Len(parts) :
              Len(parts[k]) > max_length => ~has_word_boundary(parts[k])

\* the <pre> blocks of the text that fit a chunk
fitting_blocks(t, max) ==
    LET sbs == special_blocks(t)
    IN  {SubSeq(t, sbs[k].start, sbs[k].end) :
            k \in {j \in 1..Len(sbs) : sbs[j].end - sbs[j].start + 1 <= max}}

\* the number of places where t occurs in s
occurrences(s, t) == Cardinality({p \in 1..Len(s) : StartsWithAt(s, p, t)})

RECURSIVE occurrences_in_all(_, _)
occurrences_in_all(l, t) ==
    IF l = <<>> THEN 0 ELSE occurrences(l[1], t) + occurrences_in_all(Tail(l), t)

\* every <pre> block of the text fits a chunk
all_blocks_fit(t, max) ==
    LET sbs == special_blocks(t)
    IN  \A k \in 1..Len(sbs) : sbs[k].end - sbs[k].start + 1 <= max

\* C16: when the call is done, every <pre> block of the text that is no
\* longer than max_length stands whole in a chunk, and, when every block
\* fits, in as many places of the chunks as of the text.
C16_FittingBlockWhole ==
    (split_done /\ max_length > 0)
        => LET every_block_fits == all_blocks_fit(text, max_length)
           IN  \A b \in fitting_blocks(text, max_length) :
                  /\ \E k \in 1..Len(parts) : contains(parts[k], b)
                  /\ every_block_fits
                        => occurrences_in_all(parts, b) = occurrences(text, b)

\* C16 witness: a text too long for one chunk, holding a <pre> block with a
\* sentence end inside and a sentence end outside, is split in several
\* chunks one of which holds the block.
C16_Witness ==
    /\ split_done
    /\ Len(text) > max_length
    /\ FragPreStop \in fitting_blocks(text, max_length)
    /\ contains(SubSeq(text, Len(FragPreStop) + 1, Len(text)), FragWord \o FragStop)
    /\ Len(parts) >= 2
    /\ \E k \in 1..Len(parts) : contains(parts[k], FragPreStop)

\* the name of the tag of the markup tag set opening at p, <<>> if none does
opened_name(s, p) ==
    IF \E n \in TagNames : open_tag_at(s, p, n)
    THEN CHOOSE n \in TagNames : open_tag_at(s, p, n) ELSE <<>>

closed_name(s, p) ==
    IF \E n \in TagNames : close_tag_at(s, p, n)
    THEN CHOOSE n \in TagNames : close_tag_at(s, p, n) ELSE <<>>

\* the stack without its topmost entry opening the tag of that name; the
\* stack itself if it has none
without_nearest(stack, name) ==
    LET c == {i \in 1..Len(stack) : open_tag_at(stack[i], 1, name)}
    IN  IF c = {} THEN stack
        ELSE SubSeq(stack, 1, Max(c) - 1) \o SubSeq(stack, Max(c) + 1, Len(stack))

\* the tags of the markup tag set opened and not closed in s from p on, in
\* opening order, stack being those open before p
RECURSIVE unclosed_from(_, _, _)
unclosed_from(s, p, stack) ==
    IF p > Len(s) THEN stack
    ELSE IF opened_name(s, p) # <<>> /\ Find(s, <<">">>, p) # 0
    THEN unclosed_from(s, Find(s, <<">">>, p) + 1,
                       Append(stack, SubSeq(s, p, Find(s, <<">">>, p))))
    ELSE IF closed_name(s, p) # <<>>
    THEN unclosed_from(s, p + 1, without_nearest(stack, closed_name(s, p)))
    ELSE unclosed_from(s, p + 1, stack)

unclosed_tags(s) == unclosed_from(s, 1, <<>>)

\* C20: while the chunks are assembled, open_tags is the sequence of the
\* tags opened and not closed in current_part, in opening order.
C20_StackMirrorsCurrentPart ==
    (pc \in {"blocks", "sentences", "done"} /\ well_nested(text))
        => open_tags = unclosed_tags(current_part)

----------------------------------------------------------------------------
(* Properties of track_tags, checked under SpecTrack                       *)

\* a match has been handled
tracked == last_match.at # 0

\* the tag handled last is one of the markup tag set
last_in_tag_set ==
    \/ opened_name(scan_chunk, last_match.at) # <<>>
    \/ closed_name(scan_chunk, last_match.at) # <<>>

\* C17: bracket-like text that is not a tag of the markup tag set leaves
\* open_tags as it was.
C17_OnlyTagSetTracked ==
    (tracked /\ ~last_in_tag_set) => open_tags = last_match.before

\* every "<" of the text begins a tag of the markup tag set
only_tag_set(s) ==
    \A p \in 1..Len(s) :
        s[p] = "<" => (opened_name(s, p) # <<>> \/ closed_name(s, p) # <<>>)

SpoilerName == <<"t","g","-","s","p","o","i","l","e","r">>

\* C18: a closing spoiler tag removes the <tg-spoiler> entry nearest to the
\* top of open_tags, whatever is above it.
C18_SpoilerClosedByName ==
    (/\ tracked
     /\ only_tag_set(scan_chunk)
     /\ close_tag_at(scan_chunk, last_match.at, SpoilerName))
        => open_tags = without_nearest(last_match.before, SpoilerName)

\* the name of a tag: what stands between "<" or "</" and the first blank
\* or ">"
name_of(tag) ==
    LET a == IF Len(tag) >= 2 /\ tag[2] = "/" THEN 3 ELSE 2
    IN  SubSeq(tag, a, RunEndNotIn(tag, a, {" ", ">"}) - 1)

\* the closing tag handled last, <<>> if the match handled last is not one
last_closing ==
    IF tracked /\ StartsWithAt(scan_chunk, last_match.at, <<"<", "/">>)
    THEN SubSeq(scan_chunk, last_match.at, Find(scan_chunk, <<">">>, last_match.at))
    ELSE <<>>

\* C19: a closing tag whose name no entry of open_tags has leaves open_tags
\* as it was.
C19_UnmatchedCloseIgnored ==
    (/\ last_closing # <<>>
     /\ \A i \in 1..Len(last_match.before) :
           name_of(last_match.before[i]) # name_of(last_closing))
        => open_tags = last_match.before

----------------------------------------------------------------------------
(* Properties of the methods of Database, checked under SpecDb             *)

\* the time the end_date of a row of table subscriptions denotes
end_time(row) == Time(row.end_date.day, row.end_date.sec, row.end_date.micro)

\* the user has a subscription whose end_date is later than the time
subscribed(subs, u, now) ==
    \E i \in 1..Len(subs) :
        subs[i].user_id = u /\ time_less(now, end_time(subs[i]))

\* the user's daily limit at the time
limit_of(subs, u, now) ==
    IF subscribed(subs, u, now) THEN PREMIUM_DAILY_LIMIT ELSE FREE_DAILY_LIMIT

\* the allowance left of a limit after k requests
allowance(limit, k) == IF limit > k THEN limit - k ELSE 0

\* C25: for a registered user, get_remaining_requests returns max(0, L - k),
\* L being the user's daily limit at the time of the call (premium while a
\* subscription is not over, free otherwise) and k the number of
\* update_stats calls made for the user on the day of the call.
C25_RemainingIsLimitMinusToday ==
    (db_result.method = "get_remaining_requests"
        /\ users[db_result.user_id].present)
        => /\ ~db_result.raised
           /\ db_result.value =
                 allowance(limit_of(subscriptions, db_result.user_id, clock),
                           requests_logged(db_queries, db_result.user_id,
                                           today(clock)))

\* C26: get_subscription_info reports is_active = True exactly when the user
\* has a subscription whose end_date is later than the time of the call, so
\* that a paid period of d days is reported active during the d days that
\* follow and never after.
C26_ActiveExactlyWhileNotOver ==
    db_result.method = "get_subscription_info"
        => /\ ~db_result.raised
           /\ db_result.is_active
                 <=> subscribed(subscriptions, db_result.user_id, clock)

----------------------------------------------------------------------------
(* Properties of chat_handler, checked under SpecBot                       *)

\* the requests posted for the user
forwarded_for(u) == {k \in 1..Len(forwarded) : forwarded[k].user_id = u}

\* C22: whatever the interleaving of the handlers of a user's messages, the
\* number of requests posted for the user on the day never exceeds the
\* user's daily limit.
C22_ForwardedWithinDailyLimit ==
    \A u \in UserIds :
        Cardinality(forwarded_for(u)) <= limit_of(subscriptions, u, clock)

\* the request is not subject to the cooldown: the user is subscribed, or
\* the message is the one that registered the user
exempt(f) == f.is_premium \/ f.it_new_user

\* C23: a request of a user without subscription, other than the one of the
\* user's first message, is posted only if its handling started at least
\* COOLDOWN_SECONDS after the handling of every earlier posted request of
\* the user.
C23_CooldownBetweenForwarded ==
    \A j, k \in 1..Len(forwarded) :
        (/\ j # k
         /\ forwarded[j].user_id = forwarded[k].user_id
         /\ ~exempt(forwarded[k])
         /\ ~time_less(forwarded[k].started, forwarded[j].started))
            => seconds_between(forwarded[k].started, forwarded[j].started)
                  >= COOLDOWN_SECONDS

\* the request the handler of the update posted has failed
request_failed(i) ==
    \E k \in 1..Len(forwarded) :
        forwarded[k].update = i /\ forwarded[k].outcome # "ok"

\* what the handler of the update has handed to Telegram
sent_for(i) == SelectSeq(outbox, LAMBDA m : m.update = i)

\* a request fails in the step
a_request_fails ==
    /\ Len(forwarded') = Len(forwarded) + 1
    /\ forwarded'[Len(forwarded')].outcome # "ok"

\* a handler starts in the step
a_handler_starts == Len(tasks') = Len(tasks) + 1

\* C24: a handler whose request fails appends nothing to message_history and
\* changes no counter of the user: its start leaves the row of a registered
\* user as it was, the failing request leaves both tables as they were, and
\* all it hands to Telegram is one error text, after which it is done.
C24_FailedRequestLeavesNoTrace ==
    /\ [][/\ a_request_fails
             => users' = users /\ message_history' = message_history
          /\ a_handler_starts
             => /\ message_history' = message_history
                /\ \A u \in UserIds : users[u].present => users'[u] = users[u]
         ]_vars
    /\ [](\A i \in 1..Len(tasks) :
             request_failed(i)
                => /\ tasks[i].pc = "done"
                   /\ Len(sent_for(i)) = 1
                   /\ sent_for(i)[1].kind \in {"timeout", "http_error"})

\* C24 witness: the request of a registered user's message has failed while
\* the user's other message was answered
C24_Witness ==
    \E i, j \in 1..Len(tasks) :
        /\ request_failed(i)
        /\ ~tasks[i].it_new_user
        /\ tasks[j].user_id = tasks[i].user_id
        /\ tasks[j].n_sent > 0

\* the message is a chunk of an answer, or an answer sent whole
is_chunk(m) == m.kind \in {"part", "answer"}

\* C27: between two chunks of an answer no chunk of another answer is handed
\* to Telegram for the same chat.
C27_ChunksContiguous ==
    \A a, b, c \in 1..Len(outbox) :
        (/\ a < b /\ b < c
         /\ is_chunk(outbox[a]) /\ is_chunk(outbox[b]) /\ is_chunk(outbox[c])
         /\ outbox[a].update = outbox[c].update
         /\ outbox[b].to = outbox[a].to)
            => outbox[b].update = outbox[a].update

----------------------------------------------------------------------------
(* Properties of the delivery of an answer, checked under SpecDeliver      *)

\* the chunks and answers handed to Telegram so far, in the order of the calls
handed_texts ==
    LET sent == SelectSeq(outbox, LAMBDA m : m.kind \in {"part", "answer"})
    IN  [k \in 1..Len(sent) |-> sent[k].text]

\* C21: the texts handed to Telegram for an answer are the chunks
\* smart_split_message returned, one call per chunk and in the order of the
\* list, and once the last call has returned they are all of the chunks,
\* also when the list has a single chunk.
C21_HandsExactlyTheChunks ==
    send_pc # "idle"
        => /\ send_i <= Len(parts)
           /\ handed_texts = SubSeq(parts, 1, send_i)
           /\ send_pc = "sent" => send_i = Len(parts)

----------------------------------------------------------------------------
(* Properties of the administrators' handlers, checked under SpecAdmin     *)

\* the sends of run k of process_broadcast that returned, to user u
broadcasts_to(k, u) ==
    Len(SelectSeq(outbox,
          LAMBDA m : m.kind = "broadcast" /\ m.update = k /\ m.to = u))

\* the times an administrator was asked for the text of a broadcast
prompts == Len(SelectSeq(outbox, LAMBDA m : m.kind = "prompt"))

\* C28: a finished run of process_broadcast has tried every registered user
\* once, whether or not a send failed, its two counts add up to the number of
\* registered users and count the sends as they went; no more messages are
\* broadcast than broadcasts were asked for, and once they are all done no
\* user is left in the state waiting_broadcast.
C28_BroadcastOncePerTrigger ==
    /\ \A k \in 1..Len(tasks) :
          tasks[k].pc = "done"
             => /\ tasks[k].success + tasks[k].failed
                      = Cardinality(get_all_user_ids(users))
                /\ \A u \in UserIds : broadcasts_to(k, u) <= 1
                /\ \A u \in UserIds \ get_all_user_ids(users) :
                      broadcasts_to(k, u) = 0
    /\ Len(tasks) <= prompts
    /\ (Len(tasks) = prompts /\ \A k \in 1..Len(tasks) : tasks[k].pc = "done")
          => \A u \in UserIds : fsm_state[u] = NoState

\* the callers that are no administrators
outsiders == UserIds \ ADMIN_IDS

\* C29: a caller whose id is not in ADMIN_IDS causes no query of the
\* database and no broadcast, is never put in a state, and gets nothing from
\* the panel and its buttons but a refusal.
C29_OutsidersOnlyRefused ==
    \A c \in outsiders :
        /\ fsm_state[c] = NoState
        /\ \A q \in 1..Len(db_queries) : db_queries[q].user_id # c
        /\ \A k \in 1..Len(tasks) : tasks[k].user_id # c
        /\ \A m \in 1..Len(outbox) :
              outbox[m].to = c => outbox[m].kind \in {"refusal", "broadcast"}

\* C29 witness: a caller that is no administrator was refused, while an
\* administrator's button made a query and a broadcast reached the caller
C29_Witness ==
    /\ \E m \in 1..Len(outbox) :
          outbox[m].to \in outsiders /\ outbox[m].kind = "refusal"
    /\ \E m \in 1..Len(outbox) :
          outbox[m].to \in outsiders /\ outbox[m].kind = "broadcast"
    /\ \E q \in 1..Len(db_queries) : db_queries[q].method # "get_all_user_ids"

====
